---- MODULE Spec2Model ----
(***************************************************************************)
(* A model of the chain-state provider (shared/src/shared.rs) and of the   *)
(* lock-hash wallet index (wallet/src/store.rs), with the reward           *)
(* finalization exercised by chain/src/tests/reward.rs.                    *)
(*                                                                         *)
(* Specifications: Spec (the wallet index under tip changes), SpecApi      *)
(* (insert_lock_hash and remove_lock_hash over a short chain), SpecThread  *)
(* (the update thread until the channel closes, with fairness), SpecPages  *)
(* (the paged reads over a column), SpecCommit (batches whose commit       *)
(* fails), SpecUpdate (update called directly), SpecProvider (get_ancestor *)
(* and union_proposal_ids_n beside a writer), SpecDifficulty               *)
(* (calculate_difficulty on every bounded input), SpecRetarget             *)
(* (calculate_difficulty on the headers of the chain), SpecFee             *)
(* (calculate_transaction_fee), SpecCell (cell and cell_at), SpecNew       *)
(* (Shared::new on the stores a node may be started on), SpecRace (update  *)
(* beside the wallet API), SpecResync (blocks attached a second time),     *)
(* SpecFrame (attach_block and detach_block on their own) and SpecReward   *)
(* (finalize_block_reward on the chains the reward test can build).        *)
(*                                                                         *)
(* Option<T> is a sequence of length 0 (None) or 1 (Some).                 *)
(* A key-value column is a function whose DOMAIN is the set of its keys.   *)
(***************************************************************************)
EXTENDS Integers, Sequences, FiniteSets, TLC

VARIABLES
    stored,      \* hashes of the blocks the chain store holds
    index,       \* INDEX column: canonical hashes, index[n + 1] is the hash at number n
    queue,       \* tip-change events published to the wallet and not yet received
    db,          \* the four wallet columns, as committed
    alive,       \* the wallet update thread is running (it has not panicked or left)
    closed,      \* the chain service has dropped its end of the new-tip channel
    page,        \* the paged read performed last, with the rows it returned
    covered,     \* history: locks whose registration replayed all their outputs
    calls,       \* history: number of wallet API calls made so far
    outcome,     \* history: the wallet operation performed last, with its outcome
    tip_header,  \* the hash of the header the shared TipHeader cell holds
    reader,      \* a ChainProvider reader: its call, its position in it, its locals
    retarget,    \* a call of calculate_difficulty: what it reads, and its result
    blocks,      \* the chain of the reward scenario: blocks[n] is the block numbered n
    finalized,   \* the last finalize_block_reward call: its parent and what it returned
    lookup       \* a call of calculate_transaction_fee, cell or cell_at, and its result

vars == <<stored, index, queue, db, alive, closed, page, covered, calls, outcome,
          tip_header, reader, retarget, blocks, finalized, lookup>>

\* the pure computations of the provider: difficulty and reward
calcVars == <<retarget, blocks, finalized, lookup>>
\* what the wallet and its callers leave alone
providerVars == <<reader, retarget, blocks, finalized, lookup>>
\* what the readers of the chain provider leave alone
walletVars == <<queue, db, alive, closed, page, covered, calls, outcome>>

None == <<>>
Some(x) == <<x>>

EmptyMap == [x \in {} |-> x]
Put(m, k, v) == [x \in (DOMAIN m) \cup {k} |-> IF x = k THEN v ELSE m[x]]
Del(m, k) == [x \in (DOMAIN m) \ {k} |-> m[x]]
Get(m, k) == IF k \in DOMAIN m THEN Some(m[k]) ELSE None

Reverse(s) == [i \in 1..Len(s) |-> s[Len(s) + 1 - i]]
Range(s) == {s[i] : i \in DOMAIN s}

----------------------------------------------------------------------------
(* The blocks the chain service may be handed.  Two branches fork after A: *)
(* A-B-C-D and A-Bf-Cf.  td is the total difficulty BlockExt records.      *)

Locks == {"L1", "L2"}

CellOutput(capacity, lock) == [capacity |-> capacity, lock |-> lock]
OutPoint(tx_hash, i) == Some([tx_hash |-> tx_hash, index |-> i])
NullOutPoint == None

Tx(hash, inputs, outputs) == [hash |-> hash, inputs |-> inputs, outputs |-> outputs]

cbA == Tx("cbA", <<NullOutPoint>>, <<CellOutput(5, "L2")>>)
a1 == Tx("a1", <<>>, <<CellOutput(10, "L1")>>)
b1 == Tx("b1", <<OutPoint("a1", 0)>>, <<CellOutput(20, "L1")>>)
f1 == Tx("f1", <<>>, <<CellOutput(30, "L1")>>)
f2 == Tx("f2", <<OutPoint("f1", 0)>>, <<CellOutput(40, "L2")>>)
g1 == Tx("g1", <<OutPoint("cbA", 0)>>, <<CellOutput(50, "L1")>>)
e1 == Tx("e1", <<OutPoint("b1", 0)>>, <<CellOutput(60, "L2")>>)

\* the most transactions in a block, outputs and inputs in a transaction
MaxTxs == 2
MaxOutputs == 1
MaxInputs == 1

BlockHashes == {"G", "A", "B", "C", "D", "Bf", "Cf"}

Blk(hash, number, parent, td, txs) ==
    [hash |-> hash, number |-> number, parent_hash |-> parent, td |-> td,
     transactions |-> txs]

Block(h) ==
    CASE h = "G"  -> Blk("G", 0, "G", 0, <<>>)
      [] h = "A"  -> Blk("A", 1, "G", 1, <<cbA, a1>>)
      [] h = "B"  -> Blk("B", 2, "A", 3, <<b1>>)
      [] h = "C"  -> Blk("C", 3, "B", 5, <<>>)
      [] h = "D"  -> Blk("D", 4, "C", 8, <<e1>>)
      [] h = "Bf" -> Blk("Bf", 2, "A", 6, <<f1, f2>>)
      [] h = "Cf" -> Blk("Cf", 3, "Bf", 7, <<g1>>)

is_cellbase(tx) ==
    Len(tx.inputs) = 1 /\ tx.inputs[1] = NullOutPoint

\* The hashes from genesis to h along parent links, oldest first.
RECURSIVE Branch(_)
Branch(h) ==
    IF Block(h).number = 0 THEN <<h>> ELSE Append(Branch(Block(h).parent_hash), h)

----------------------------------------------------------------------------
(* Chain-state accessors used by the wallet.                               *)

tip_number == Len(index) - 1
tip_hash == index[Len(index)]

block_hash(number) ==
    IF number >= 0 /\ number < Len(index) THEN Some(index[number + 1]) ELSE None

block_number(hash) ==
    IF \E i \in 1..Len(index) : index[i] = hash THEN Some(Block(hash).number) ELSE None

----------------------------------------------------------------------------
(* Wallet columns and batches.                                             *)

LockHashIndex(lock_hash, block_number_, tx_hash, i) == <<lock_hash, block_number_, tx_hash, i>>
LockHashIndexState(number, hash) == [block_number |-> number, block_hash |-> hash]
LockHashCellOutput(lock_hash, number, cell_output) ==
    [lock_hash |-> lock_hash, block_number |-> number, cell_output |-> cell_output]
TransactionPoint(number, tx_hash, i) == [block_number |-> number, tx_hash |-> tx_hash, index |-> i]

EmptyDb == [state |-> EmptyMap, live |-> EmptyMap, txs |-> EmptyMap, cop |-> EmptyMap]

\* A batch under construction: the columns as they will be once its puts and
\* deletes are applied in order, the batch buffer, and whether building it panicked.
NewBatch(d) == [cols |-> d, buffer |-> EmptyMap, panic |-> FALSE]

get_lock_hash_index_states(d) == d.state
get_lock_hash_cell_output(d, cell_out_point) == Get(d.cop, cell_out_point)

PutState(st, lock_hash, index_state) ==
    [st EXCEPT !.cols.state = Put(@, lock_hash, index_state)]

----------------------------------------------------------------------------
(* attach_block: store.rs 388-459.  d is the committed database the reads  *)
(* go to; st is the batch being built.                                     *)

AttachOutput(st, index_lock_hashes, number, tx, i) ==
    LET output == tx.outputs[i]
        index_ == i - 1
        lock_hash == output.lock
        lock_hash_index == LockHashIndex(lock_hash, number, tx.hash, index_)
        cell_out_point == [tx_hash |-> tx.hash, index |-> index_]
    IN  IF lock_hash \in index_lock_hashes
        THEN [st EXCEPT
                !.cols.live = Put(@, lock_hash_index, output),
                !.cols.txs = Put(@, lock_hash_index, None),
                !.cols.cop = Put(@, cell_out_point,
                                 LockHashCellOutput(lock_hash, number, None)),
                !.buffer = Put(@, cell_out_point,
                               LockHashCellOutput(lock_hash, number, Some(output)))]
        ELSE st

\* attach_block reading the committed column only, without the batch buffer
AttachInputCommitted(d, st, index_lock_hashes, number, tx, i) ==
    LET input == tx.inputs[i]
        index_ == i - 1
    IN  IF input = NullOutPoint
        THEN [st EXCEPT !.panic = TRUE]
        ELSE
        LET cell_out_point == input[1]
            found == get_lock_hash_cell_output(d, cell_out_point)
        IN  IF found /= None /\ found[1].lock_hash \in index_lock_hashes
            THEN LET lock_hash_cell_output == found[1]
                     lock_hash_index ==
                         LockHashIndex(lock_hash_cell_output.lock_hash,
                                       lock_hash_cell_output.block_number,
                                       cell_out_point.tx_hash, cell_out_point.index)
                     consumed_by == TransactionPoint(number, tx.hash, index_)
                 IN  [st EXCEPT
                        !.cols.cop = Put(@, cell_out_point, lock_hash_cell_output),
                        !.cols.live = Del(@, lock_hash_index),
                        !.cols.txs = Put(@, lock_hash_index, Some(consumed_by))]
            ELSE st

\* attach_block recording the consumer and leaving the live cell in place
AttachInputKeepsLive(d, st, index_lock_hashes, number, tx, i) ==
    LET input == tx.inputs[i]
        index_ == i - 1
    IN  IF input = NullOutPoint
        THEN [st EXCEPT !.panic = TRUE]
        ELSE
        LET cell_out_point == input[1]
            found == IF cell_out_point \in DOMAIN st.buffer
                     THEN Some(st.buffer[cell_out_point])
                     ELSE get_lock_hash_cell_output(d, cell_out_point)
        IN  IF found /= None /\ found[1].lock_hash \in index_lock_hashes
            THEN LET lock_hash_cell_output == found[1]
                     lock_hash_index ==
                         LockHashIndex(lock_hash_cell_output.lock_hash,
                                       lock_hash_cell_output.block_number,
                                       cell_out_point.tx_hash, cell_out_point.index)
                     consumed_by == TransactionPoint(number, tx.hash, index_)
                 IN  [st EXCEPT
                        !.cols.cop = Put(@, cell_out_point, lock_hash_cell_output),
                        !.cols.txs = Put(@, lock_hash_index, Some(consumed_by))]
            ELSE st

\* attach_block recording the creating coordinates as the consumer
AttachInputCreatingPoint(d, st, index_lock_hashes, number, tx, i) ==
    LET input == tx.inputs[i]
    IN  IF input = NullOutPoint
        THEN [st EXCEPT !.panic = TRUE]
        ELSE
        LET cell_out_point == input[1]
            found == IF cell_out_point \in DOMAIN st.buffer
                     THEN Some(st.buffer[cell_out_point])
                     ELSE get_lock_hash_cell_output(d, cell_out_point)
        IN  IF found /= None /\ found[1].lock_hash \in index_lock_hashes
            THEN LET lock_hash_cell_output == found[1]
                     lock_hash_index ==
                         LockHashIndex(lock_hash_cell_output.lock_hash,
                                       lock_hash_cell_output.block_number,
                                       cell_out_point.tx_hash, cell_out_point.index)
                     consumed_by == TransactionPoint(lock_hash_cell_output.block_number,
                                                     cell_out_point.tx_hash,
                                                     cell_out_point.index)
                 IN  [st EXCEPT
                        !.cols.cop = Put(@, cell_out_point, lock_hash_cell_output),
                        !.cols.live = Del(@, lock_hash_index),
                        !.cols.txs = Put(@, lock_hash_index, Some(consumed_by))]
            ELSE st

AttachInput(d, st, index_lock_hashes, number, tx, i) ==
    LET input == tx.inputs[i]
        index_ == i - 1
    IN  IF input = NullOutPoint
        THEN [st EXCEPT !.panic = TRUE]          \* expect("cell exists")
        ELSE
        LET cell_out_point == input[1]
            found == IF cell_out_point \in DOMAIN st.buffer
                     THEN Some(st.buffer[cell_out_point])
                     ELSE get_lock_hash_cell_output(d, cell_out_point)
        IN  IF found /= None /\ found[1].lock_hash \in index_lock_hashes
            THEN LET lock_hash_cell_output == found[1]
                     lock_hash_index ==
                         LockHashIndex(lock_hash_cell_output.lock_hash,
                                       lock_hash_cell_output.block_number,
                                       cell_out_point.tx_hash, cell_out_point.index)
                     consumed_by == TransactionPoint(number, tx.hash, index_)
                 IN  [st EXCEPT
                        !.cols.cop = Put(@, cell_out_point, lock_hash_cell_output),
                        !.cols.live = Del(@, lock_hash_index),
                        !.cols.txs = Put(@, lock_hash_index, Some(consumed_by))]
            ELSE st

RECURSIVE AttachOutputs(_, _, _, _, _)
AttachOutputs(st, index_lock_hashes, number, tx, i) ==
    IF i > Len(tx.outputs) THEN st
    ELSE AttachOutputs(AttachOutput(st, index_lock_hashes, number, tx, i),
                       index_lock_hashes, number, tx, i + 1)

RECURSIVE AttachInputs(_, _, _, _, _, _)
AttachInputs(d, st, index_lock_hashes, number, tx, i) ==
    IF i > Len(tx.inputs) \/ st.panic THEN st
    ELSE AttachInputs(d, AttachInput(d, st, index_lock_hashes, number, tx, i),
                      index_lock_hashes, number, tx, i + 1)

\* attach_block looking up the inputs of every transaction, cellbase or not
AttachTxEveryInput(d, st, index_lock_hashes, number, tx) ==
    AttachInputs(d, AttachOutputs(st, index_lock_hashes, number, tx, 1),
                 index_lock_hashes, number, tx, 1)

AttachTx(d, st, index_lock_hashes, number, tx) ==
    LET st1 == AttachOutputs(st, index_lock_hashes, number, tx, 1)
    IN  IF ~is_cellbase(tx)
        THEN AttachInputs(d, st1, index_lock_hashes, number, tx, 1)
        ELSE st1

RECURSIVE AttachTxs(_, _, _, _, _, _)
AttachTxs(d, st, index_lock_hashes, number, txs, i) ==
    IF i > Len(txs) \/ st.panic THEN st
    ELSE AttachTxs(d, AttachTx(d, st, index_lock_hashes, number, txs[i]),
                   index_lock_hashes, number, txs, i + 1)

attach_block(d, st, index_lock_hashes, block) ==
    AttachTxs(d, st, index_lock_hashes, block.number, block.transactions, 1)

----------------------------------------------------------------------------
(* detach_block: store.rs 331-386.                                         *)

DetachInput(d, st, index_lock_hashes, number, tx, i) ==
    LET input == tx.inputs[i]
        index_ == i - 1
    IN  IF input = NullOutPoint
        THEN [st EXCEPT !.panic = TRUE]          \* expect("cell exists")
        ELSE
        LET cell_out_point == input[1]
            found == get_lock_hash_cell_output(d, cell_out_point)
        IN  IF found /= None /\ found[1].lock_hash \in index_lock_hashes
            THEN LET lock_hash_cell_output == found[1]
                     lock_hash_index ==
                         LockHashIndex(lock_hash_cell_output.lock_hash,
                                       number, tx.hash, index_)
                 IN  IF lock_hash_cell_output.cell_output = None
                     THEN [st EXCEPT !.panic = TRUE]   \* expect("inconsistent state")
                     ELSE [st EXCEPT
                            !.cols.live = Put(@, lock_hash_index,
                                              lock_hash_cell_output.cell_output[1]),
                            !.cols.txs = Put(@, lock_hash_index, None),
                            !.cols.cop = Put(@, cell_out_point,
                                [lock_hash_cell_output EXCEPT !.cell_output = None])]
            ELSE st

DetachOutput(st, index_lock_hashes, number, tx, i) ==
    LET output == tx.outputs[i]
        index_ == i - 1
        lock_hash == output.lock
        lock_hash_index == LockHashIndex(lock_hash, number, tx.hash, index_)
        cell_out_point == [tx_hash |-> tx.hash, index |-> index_]
    IN  IF lock_hash \in index_lock_hashes
        THEN [st EXCEPT
                !.cols.live = Del(@, lock_hash_index),
                !.cols.txs = Del(@, lock_hash_index),
                !.cols.cop = Del(@, cell_out_point)]
        ELSE st

RECURSIVE DetachInputs(_, _, _, _, _, _)
DetachInputs(d, st, index_lock_hashes, number, tx, i) ==
    IF i > Len(tx.inputs) \/ st.panic THEN st
    ELSE DetachInputs(d, DetachInput(d, st, index_lock_hashes, number, tx, i),
                      index_lock_hashes, number, tx, i + 1)

RECURSIVE DetachOutputs(_, _, _, _, _)
DetachOutputs(st, index_lock_hashes, number, tx, i) ==
    IF i > Len(tx.outputs) THEN st
    ELSE DetachOutputs(DetachOutput(st, index_lock_hashes, number, tx, i),
                       index_lock_hashes, number, tx, i + 1)

DetachTx(d, st, index_lock_hashes, number, tx) ==
    LET st1 == IF ~is_cellbase(tx)
               THEN DetachInputs(d, st, index_lock_hashes, number, tx, 1)
               ELSE st
    IN  IF st1.panic THEN st1
        ELSE DetachOutputs(st1, index_lock_hashes, number, tx, 1)

RECURSIVE DetachTxs(_, _, _, _, _, _)
DetachTxs(d, st, index_lock_hashes, number, txs, i) ==
    IF i > Len(txs) \/ st.panic THEN st
    ELSE DetachTxs(d, DetachTx(d, st, index_lock_hashes, number, txs[i]),
                   index_lock_hashes, number, txs, i + 1)

detach_block(d, st, index_lock_hashes, block) ==
    DetachTxs(d, st, index_lock_hashes, block.number, block.transactions, 1)

\* blocks.iter().for_each(|block| detach_block / attach_block), over hashes
RECURSIVE DetachBlocks(_, _, _, _, _)
DetachBlocks(d, st, index_lock_hashes, hashes, i) ==
    IF i > Len(hashes) \/ st.panic THEN st
    ELSE DetachBlocks(d, detach_block(d, st, index_lock_hashes, Block(hashes[i])),
                      index_lock_hashes, hashes, i + 1)

RECURSIVE AttachBlocks(_, _, _, _, _)
AttachBlocks(d, st, index_lock_hashes, hashes, i) ==
    IF i > Len(hashes) \/ st.panic THEN st
    ELSE AttachBlocks(d, attach_block(d, st, index_lock_hashes, Block(hashes[i])),
                      index_lock_hashes, hashes, i + 1)

RECURSIVE PutStates(_, _, _)
PutStates(st, lock_hashes, index_state) ==
    IF lock_hashes = {} THEN st
    ELSE LET l == CHOOSE x \in lock_hashes : TRUE
         IN  PutStates(PutState(st, l, index_state), lock_hashes \ {l}, index_state)

\* commit_batch: a batch whose construction panicked is never committed
Commit(d, st) == IF st.panic THEN d ELSE st.cols

----------------------------------------------------------------------------
(* The wallet operations, as functions of the committed database d and the *)
(* chain state.  Each returns [cols, ok]: the database afterwards, and     *)
(* whether the call ran to its end (FALSE: it panicked).                   *)

\* (from..=tip).for_each(block_hash(n).and_then(block)): the canonical hashes
CanonicalHashes(from, to) ==
    [i \in 1..(IF to >= from THEN to - from + 1 ELSE 0) |-> index[from + i]]

\* update leaving the index states to a later batch
update_rows_only(d, detached_blocks, attached_blocks) ==
    LET index_lock_hashes == DOMAIN get_lock_hash_index_states(d)
        st1 == DetachBlocks(d, NewBatch(d), index_lock_hashes, detached_blocks, 1)
        st2 == AttachBlocks(d, st1, index_lock_hashes, attached_blocks, 1)
    IN  IF index_lock_hashes /= {}
        THEN [cols |-> Commit(d, st2), ok |-> ~st2.panic]
        ELSE [cols |-> d, ok |-> TRUE]

\* update writing the first attached block as the checkpoint
update_first_attached(d, detached_blocks, attached_blocks) ==
    LET index_lock_hashes == DOMAIN get_lock_hash_index_states(d)
        st1 == DetachBlocks(d, NewBatch(d), index_lock_hashes, detached_blocks, 1)
        st2 == AttachBlocks(d, st1, index_lock_hashes, attached_blocks, 1)
        block == Block(attached_blocks[1])
        st3 == IF attached_blocks /= <<>> /\ ~st2.panic
               THEN PutStates(st2, index_lock_hashes,
                              LockHashIndexState(block.number, block.hash))
               ELSE st2
    IN  IF index_lock_hashes /= {}
        THEN [cols |-> Commit(d, st3), ok |-> ~st3.panic]
        ELSE [cols |-> d, ok |-> TRUE]

\* store.rs 305-329
update(d, detached_blocks, attached_blocks) ==
    LET index_lock_hashes == DOMAIN get_lock_hash_index_states(d)
        st1 == DetachBlocks(d, NewBatch(d), index_lock_hashes, detached_blocks, 1)
        st2 == AttachBlocks(d, st1, index_lock_hashes, attached_blocks, 1)
        block == Block(attached_blocks[Len(attached_blocks)])
        st3 == IF attached_blocks /= <<>> /\ ~st2.panic
               THEN PutStates(st2, index_lock_hashes,
                              LockHashIndexState(block.number, block.hash))
               ELSE st2
    IN  IF index_lock_hashes /= {}
        THEN [cols |-> Commit(d, st3), ok |-> ~st3.panic]
        ELSE [cols |-> d, ok |-> TRUE]

\* insert_lock_hash replaying the blocks after from_block_number only
insert_lock_hash_after_from(d, lock_hash, index_from) ==
    LET index_state == LockHashIndexState(tip_number, tip_hash)
        st1 == IF index_from /= None
               THEN AttachBlocks(d, NewBatch(d), {lock_hash},
                                 CanonicalHashes(index_from[1] + 1, tip_number), 1)
               ELSE NewBatch(d)
        st2 == IF st1.panic THEN st1 ELSE PutState(st1, lock_hash, index_state)
    IN  [cols |-> Commit(d, st2), ok |-> ~st2.panic]

\* store.rs 132-156
insert_lock_hash(d, lock_hash, index_from) ==
    LET index_state == LockHashIndexState(tip_number, tip_hash)
        st1 == IF index_from /= None
               THEN AttachBlocks(d, NewBatch(d), {lock_hash},
                                 CanonicalHashes(index_from[1], tip_number), 1)
               ELSE NewBatch(d)
        st2 == IF st1.panic THEN st1 ELSE PutState(st1, lock_hash, index_state)
    IN  [cols |-> Commit(d, st2), ok |-> ~st2.panic]

\* remove_lock_hash iterating to the end of the columns, without take_while
remove_lock_hash_unbounded(d, lock_hash) ==
    LET out_points == {[tx_hash |-> k[3], index |-> k[4]] : k \in DOMAIN d.live}
    IN  [cols |->
            [state |-> [l \in (DOMAIN d.state) \ {lock_hash} |-> d.state[l]],
             live |-> EmptyMap,
             txs |-> EmptyMap,
             cop |-> [p \in (DOMAIN d.cop) \ out_points |-> d.cop[p]]],
         ok |-> TRUE]

\* remove_lock_hash without its delete_lock_hash_index_state
remove_lock_hash_rows_only(d, lock_hash) ==
    LET live_keys == {k \in DOMAIN d.live : k[1] = lock_hash}
        tx_keys == {k \in DOMAIN d.txs : k[1] = lock_hash}
        out_points == {[tx_hash |-> k[3], index |-> k[4]] : k \in live_keys}
    IN  [cols |->
            [state |-> d.state,
             live |-> [k \in (DOMAIN d.live) \ live_keys |-> d.live[k]],
             txs |-> [k \in (DOMAIN d.txs) \ tx_keys |-> d.txs[k]],
             cop |-> [p \in (DOMAIN d.cop) \ out_points |-> d.cop[p]]],
         ok |-> TRUE]

\* store.rs 158-185
remove_lock_hash(d, lock_hash) ==
    LET live_keys == {k \in DOMAIN d.live : k[1] = lock_hash}
        tx_keys == {k \in DOMAIN d.txs : k[1] = lock_hash}
        out_points == {[tx_hash |-> k[3], index |-> k[4]] : k \in live_keys}
    IN  [cols |->
            [state |-> [l \in (DOMAIN d.state) \ {lock_hash} |-> d.state[l]],
             live |-> [k \in (DOMAIN d.live) \ live_keys |-> d.live[k]],
             txs |-> [k \in (DOMAIN d.txs) \ tx_keys |-> d.txs[k]],
             cop |-> [p \in (DOMAIN d.cop) \ out_points |-> d.cop[p]]],
         ok |-> TRUE]

\* store.rs 253-274: one lock whose checkpoint is on a fork, in a batch of its own
RECURSIVE SyncDetachWalk(_, _, _, _)
SyncDetachWalk(d, st, lock_hash, block) ==
    LET st1 == detach_block(d, st, {lock_hash}, block)
    IN  IF st1.panic THEN st1
        ELSE IF block_hash(block.number - 1) /= Some(block.parent_hash)
        THEN SyncDetachWalk(d, st1, lock_hash, Block(block.parent_hash))
        ELSE PutState(st1, lock_hash,
                      LockHashIndexState(block.number - 1, block.parent_hash))

SyncDetachOne(d, lock_hash) ==
    LET index_state == d.state[lock_hash]
        st == SyncDetachWalk(d, NewBatch(d), lock_hash, Block(index_state.block_hash))
    IN  [cols |-> Commit(d, st), ok |-> ~st.panic]

\* store.rs 247-275: the locks on a fork, in the order the map yields them
RECURSIVE SyncDetachAll(_, _, _)
SyncDetachAll(r, order, i) ==
    IF i > Len(order) \/ ~r.ok THEN r
    ELSE SyncDetachAll(SyncDetachOne(r.cols, order[i]), order, i + 1)

MinNumber(states) ==
    CHOOSE n \in {states[l].block_number : l \in DOMAIN states} :
        \A l \in DOMAIN states : n <= states[l].block_number

\* the attach part of sync_index_states stopping one block below the tip
SyncAttachBelowTip(d) ==
    LET lock_hash_index_states == get_lock_hash_index_states(d)
        min_block_number == MinNumber(lock_hash_index_states)
        index_lock_hashes == DOMAIN lock_hash_index_states
        st1 == AttachBlocks(d, NewBatch(d), index_lock_hashes,
                            CanonicalHashes(min_block_number + 1, tip_number - 1), 1)
        st2 == IF st1.panic THEN st1
               ELSE PutStates(st1, index_lock_hashes,
                              LockHashIndexState(tip_number, tip_hash))
    IN  [cols |-> Commit(d, st2), ok |-> ~st2.panic]

\* store.rs 277-302
SyncAttach(d) ==
    LET lock_hash_index_states == get_lock_hash_index_states(d)
        min_block_number == MinNumber(lock_hash_index_states)
        index_lock_hashes == DOMAIN lock_hash_index_states
        st1 == AttachBlocks(d, NewBatch(d), index_lock_hashes,
                            CanonicalHashes(min_block_number + 1, tip_number), 1)
        st2 == IF st1.panic THEN st1
               ELSE PutStates(st1, index_lock_hashes,
                              LockHashIndexState(tip_number, tip_hash))
    IN  [cols |-> Commit(d, st2), ok |-> ~st2.panic]

\* the locks sync_index_states retains: their checkpoint is not canonical
OnFork(d) ==
    {l \in DOMAIN d.state :
        block_number(d.state[l].block_hash) /= Some(d.state[l].block_number)}

Orders(S) ==
    {o \in [1..Cardinality(S) -> S] : \A l \in S : \E i \in DOMAIN o : o[i] = l}

\* store.rs 236-303
sync_index_states(d, order) ==
    IF DOMAIN get_lock_hash_index_states(d) = {} THEN [cols |-> d, ok |-> TRUE]
    ELSE LET r == SyncDetachAll([cols |-> d, ok |-> TRUE], order, 1)
         IN  IF r.ok THEN SyncAttach(r.cols) ELSE r

----------------------------------------------------------------------------
(* The system: the chain service, the wallet update thread and the callers *)
(* of the wallet API.                                                      *)

MaxCalls == 3

\* what the history variable "outcome" records: the operation, whether it ran to
\* its end, the event it applied, and the index states it started from; io is
\* None when every write of the call succeeded, or else says which succeeded
Did(op, ok, detached, attached) ==
    [op |-> op, ok |-> ok, detached |-> detached, attached |-> attached,
     before |-> db.state, lock |-> None, index_from |-> None, io |-> None]

\* the same for a call that names a lock
DidFor(op, ok, lock_hash) ==
    [Did(op, ok, <<>>, <<>>) EXCEPT !.lock = Some(lock_hash)]

\* the part of a that is not a prefix shared with b
RECURSIVE CommonLen(_, _)
CommonLen(a, b) ==
    IF a /= <<>> /\ b /= <<>> /\ Head(a) = Head(b)
    THEN 1 + CommonLen(Tail(a), Tail(b)) ELSE 0

\* The chain service stores a block whose parent it holds; when the block's
\* total difficulty exceeds the tip's, its branch becomes the canonical chain
\* and a tip-change event is published: the blocks that left the chain,
\* newest first, and the blocks that joined it, oldest first.
ProcessBlock(h) ==
    /\ ~closed
    /\ h \notin stored
    /\ Block(h).parent_hash \in stored
    /\ stored' = stored \cup {h}
    /\ IF Block(h).td > Block(tip_hash).td
       THEN LET new == Branch(h)
                n == CommonLen(index, new)
                detached == Reverse(SubSeq(index, n + 1, Len(index)))
                attached == SubSeq(new, n + 1, Len(new))
            IN  /\ index' = new
                /\ tip_header' = h
                /\ queue' = Append(queue, [detached_blocks |-> detached,
                                           attached_blocks |-> attached])
       ELSE UNCHANGED <<index, tip_header, queue>>
    /\ outcome' = Did("process_block", TRUE, <<>>, <<>>)
    /\ UNCHANGED <<db, alive, closed, page, covered, calls>>
    /\ UNCHANGED providerVars

\* store.rs 205-215: the update thread receives one event and applies it
Update ==
    /\ alive
    /\ queue /= <<>>
    /\ LET tip_changes == Head(queue)
           r == update(db, tip_changes.detached_blocks, tip_changes.attached_blocks)
       IN  /\ db' = r.cols
           /\ alive' = r.ok
           /\ outcome' = Did("update", r.ok, tip_changes.detached_blocks,
                          tip_changes.attached_blocks)
    /\ queue' = Tail(queue)
    /\ UNCHANGED <<stored, index, tip_header, closed, page, covered, calls>>
    /\ UNCHANGED providerVars

\* the outputs locked by l that the canonical blocks below number n create
EarlierOutputs(l, n) ==
    {<<i, t, o>> \in (1..Len(index)) \X (1..MaxTxs) \X (1..MaxOutputs) :
        /\ i <= n
        /\ t <= Len(Block(index[i]).transactions)
        /\ o <= Len(Block(index[i]).transactions[t].outputs)
        /\ Block(index[i]).transactions[t].outputs[o].lock = l}

InsertLockHash(l, index_from) ==
    /\ calls < MaxCalls
    /\ LET r == insert_lock_hash(db, l, index_from)
           start == IF index_from = None THEN tip_number + 1 ELSE index_from[1]
       IN  /\ db' = r.cols
           /\ outcome' = [DidFor("insert", r.ok, l) EXCEPT !.index_from = index_from]
           /\ covered' = IF EarlierOutputs(l, start) = {} THEN covered \cup {l}
                         ELSE IF l \in DOMAIN db.state THEN covered
                         ELSE covered \ {l}
    /\ calls' = calls + 1
    /\ UNCHANGED <<stored, index, tip_header, queue, alive, closed, page>>
    /\ UNCHANGED providerVars

RemoveLockHash(l) ==
    /\ calls < MaxCalls
    /\ LET r == remove_lock_hash(db, l)
       IN  /\ db' = r.cols
           /\ outcome' = DidFor("remove", r.ok, l)
    /\ covered' = covered \ {l}
    /\ calls' = calls + 1
    /\ UNCHANGED <<stored, index, tip_header, queue, alive, closed, page>>
    /\ UNCHANGED providerVars

SyncIndexStates(order) ==
    /\ calls < MaxCalls
    /\ LET r == sync_index_states(db, order)
       IN  /\ db' = r.cols
           /\ outcome' = Did("sync", r.ok, <<>>, <<>>)
    /\ calls' = calls + 1
    /\ UNCHANGED <<stored, index, tip_header, queue, alive, closed, page, covered>>
    /\ UNCHANGED providerVars

Idle == [pc |-> "idle"]

InitChain ==
    /\ stored = {"G"}
    /\ index = <<"G">>
    /\ queue = <<>>
    /\ db = EmptyDb
    /\ alive = TRUE
    /\ closed = FALSE
    /\ page = None
    /\ covered = {}
    /\ calls = 0
    /\ outcome = [op |-> "init", ok |-> TRUE, detached |-> <<>>, attached |-> <<>>,
               before |-> EmptyMap, lock |-> None, index_from |-> None, io |-> None]
    /\ tip_header = "G"
    /\ reader = Idle

Init ==
    /\ InitChain
    /\ retarget = None
    /\ blocks = <<>>
    /\ finalized = None
    /\ lookup = None

\* wallet API calls made while the whole block tree is processed
MaxSpecCalls == 2

Next ==
    \/ \E h \in BlockHashes : ProcessBlock(h)
    \/ Update
    \/ /\ calls < MaxSpecCalls
       /\ \E l \in Locks : \E index_from \in {None} \cup {Some(n) : n \in 0..tip_number} :
            InsertLockHash(l, index_from)
    \/ /\ calls < MaxSpecCalls
       /\ \E l \in Locks : RemoveLockHash(l)
    \/ /\ calls < MaxSpecCalls
       /\ \E order \in Orders(OnFork(db)) : SyncIndexStates(order)

Spec == Init /\ [][Next]_vars

\* the blocks processed while the wallet API is called MaxCalls times
ApiBlocks == {"A", "B", "Bf"}

ApiNext ==
    \/ \E h \in ApiBlocks : ProcessBlock(h)
    \/ Update
    \/ \E l \in Locks : \E index_from \in {None} \cup {Some(n) : n \in 0..tip_number} :
           InsertLockHash(l, index_from)
    \/ \E l \in Locks : RemoveLockHash(l)

SpecApi == Init /\ [][ApiNext]_vars

----------------------------------------------------------------------------
(* What the index of a lock must hold at a checkpoint h: the outputs the   *)
(* blocks from genesis to h create for the lock, and the inputs of those   *)
(* blocks that consume them.                                               *)

BranchOutputs(h) ==
    LET br == Branch(h)
    IN  {[number |-> Block(br[i]).number,
          tx_hash |-> Block(br[i]).transactions[t].hash,
          index |-> o - 1,
          output |-> Block(br[i]).transactions[t].outputs[o]] :
            <<i, t, o>> \in
                {<<i, t, o>> \in (1..Len(br)) \X (1..MaxTxs) \X (1..MaxOutputs) :
                    /\ t <= Len(Block(br[i]).transactions)
                    /\ o <= Len(Block(br[i]).transactions[t].outputs)}}

BranchInputs(h) ==
    LET br == Branch(h)
    IN  {[cell_out_point |-> Block(br[i]).transactions[t].inputs[n][1],
          by |-> TransactionPoint(Block(br[i]).number,
                                  Block(br[i]).transactions[t].hash, n - 1)] :
            <<i, t, n>> \in
                {<<i, t, n>> \in (1..Len(br)) \X (1..MaxTxs) \X (1..MaxInputs) :
                    /\ t <= Len(Block(br[i]).transactions)
                    /\ ~is_cellbase(Block(br[i]).transactions[t])
                    /\ n <= Len(Block(br[i]).transactions[t].inputs)}}

Consumers(h, out_point) ==
    {c \in BranchInputs(h) : c.cell_out_point = out_point}

CreatedFor(l, h) == {o \in BranchOutputs(h) : o.output.lock = l}

KeyOf(l, o) == LockHashIndex(l, o.number, o.tx_hash, o.index)
PointOf(o) == [tx_hash |-> o.tx_hash, index |-> o.index]

ExpectedLive(l, h) ==
    LET unspent == {o \in CreatedFor(l, h) : Consumers(h, PointOf(o)) = {}}
    IN  [k \in {KeyOf(l, o) : o \in unspent} |->
            (CHOOSE o \in unspent : KeyOf(l, o) = k).output]

ExpectedTransactions(l, h) ==
    LET created == CreatedFor(l, h)
    IN  [k \in {KeyOf(l, o) : o \in created} |->
            LET o == CHOOSE x \in created : KeyOf(l, x) = k
                cs == Consumers(h, PointOf(o))
            IN  IF cs = {} THEN None ELSE Some((CHOOSE c \in cs : TRUE).by)]

\* get_live_cells / get_transactions without paging: the rows under a lock's prefix
LiveCells(d, l) == [k \in {k \in DOMAIN d.live : k[1] = l} |-> d.live[k]]
Transactions(d, l) == [k \in {k \in DOMAIN d.txs : k[1] = l} |-> d.txs[k]]

----------------------------------------------------------------------------
\* C1: for every registered lock with checkpoint (n, h), the live cells under
\* the lock are exactly the outputs the canonical blocks up to h create for it
\* minus those the inputs of these blocks consume.  Stated for the locks whose
\* registration replayed every block that holds an output of theirs, in the
\* states where the update thread has received every published event.
C1_LiveCellCorrectness ==
    \A l \in DOMAIN db.state :
        (l \in covered /\ queue = <<>>)
            => LiveCells(db, l) = ExpectedLive(l, db.state[l].block_hash)

\* every registered lock replayed its whole history and is indexed up to the tip
InSync ==
    /\ queue = <<>>
    /\ DOMAIN db.state /= {}
    /\ \A l \in DOMAIN db.state :
        l \in covered /\ db.state[l] = LockHashIndexState(tip_number, tip_hash)

\* the sequences of consecutive blocks that extend the block h
Extensions(h) ==
    {SubSeq(Branch(x), Block(h).number + 2, Len(Branch(x))) :
        x \in {y \in BlockHashes :
                /\ Block(y).number > Block(h).number
                /\ Branch(y)[Block(h).number + 1] = h}}

\* attach S in one batch, commit, then detach S in reverse order in one batch
RoundTrip(d, index_lock_hashes, S) ==
    LET a == AttachBlocks(d, NewBatch(d), index_lock_hashes, S, 1)
        d1 == Commit(d, a)
        b == DetachBlocks(d1, NewBatch(d1), index_lock_hashes, Reverse(S), 1)
    IN  [cols |-> Commit(d1, b), ok |-> ~a.panic /\ ~b.panic]

\* C2: attaching a sequence S of consecutive blocks and then detaching S in
\* reverse order leaves the live-cell, transaction and out-point columns and
\* the index states as they were before S was attached.
C2_ReorgInverse ==
    InSync =>
        \A S \in Extensions(tip_hash) :
            LET r == RoundTrip(db, DOMAIN db.state, S)
            IN  /\ r.ok
                /\ r.cols.live = db.live
                /\ r.cols.txs = db.txs
                /\ r.cols.cop = db.cop
                /\ r.cols.state = db.state

\* the inputs of the non-cellbase transactions of the blocks hs
InputsOf(hs) ==
    {Block(hs[i]).transactions[t].inputs[n][1] :
        <<i, t, n>> \in
            {<<i, t, n>> \in (1..Len(hs)) \X (1..MaxTxs) \X (1..MaxInputs) :
                /\ t <= Len(Block(hs[i]).transactions)
                /\ ~is_cellbase(Block(hs[i]).transactions[t])
                /\ n <= Len(Block(hs[i]).transactions[t].inputs)}}

\* the hashes of the transactions of the blocks hs
TxHashesOf(hs) ==
    {Block(hs[i]).transactions[t].hash :
        <<i, t>> \in {<<i, t>> \in (1..Len(hs)) \X (1..MaxTxs) :
                        t <= Len(Block(hs[i]).transactions)}}

\* the last k canonical blocks, newest first
LastBlocks(k) == Reverse(SubSeq(index, Len(index) - k + 1, Len(index)))

\* C3: when detach_block processes an input whose previous out-point belongs
\* to a registered lock, the consumed output is a live cell again at its
\* creating key and the transaction row at that key is None; detaching the
\* last k blocks leaves the live cells of the canonical chain without them
\* (A, B, C attached and C, B detached: the live set is {o1}).
C3_DetachRestoresSpent ==
    InSync =>
        \A k \in 1..tip_number :
            LET hs == LastBlocks(k)
                st == DetachBlocks(db, NewBatch(db), DOMAIN db.state, hs, 1)
            IN  /\ ~st.panic
                /\ \A p \in InputsOf(hs) :
                    (/\ p \in DOMAIN db.cop
                     /\ db.cop[p].lock_hash \in DOMAIN db.state
                     /\ p.tx_hash \notin TxHashesOf(hs))
                    => LET key == LockHashIndex(db.cop[p].lock_hash,
                                                db.cop[p].block_number,
                                                p.tx_hash, p.index)
                       IN  /\ key \in DOMAIN st.cols.live
                           /\ key \in DOMAIN st.cols.txs
                           /\ st.cols.txs[key] = None
                /\ \A l \in DOMAIN db.state :
                    LiveCells(st.cols, l) = ExpectedLive(l, index[Len(index) - k])

\* C4: after sync_index_states returns, every registered lock's checkpoint is
\* the tip and its live cells and transactions are those of the canonical
\* chain up to the tip.
C4_ResyncConvergence ==
    (outcome.op = "sync" /\ outcome.ok /\ DOMAIN db.state /= {}) =>
        \A l \in DOMAIN db.state :
            /\ db.state[l] = LockHashIndexState(tip_number, tip_hash)
            /\ l \in covered =>
                /\ LiveCells(db, l) = ExpectedLive(l, tip_hash)
                /\ Transactions(db, l) = ExpectedTransactions(l, tip_hash)

\* the outputs of the blocks hs, with their creating coordinates
OutputsOf(hs) ==
    {[number |-> Block(hs[i]).number,
      tx_hash |-> Block(hs[i]).transactions[t].hash,
      index |-> o - 1,
      output |-> Block(hs[i]).transactions[t].outputs[o]] :
        <<i, t, o>> \in
            {<<i, t, o>> \in (1..Len(hs)) \X (1..MaxTxs) \X (1..MaxOutputs) :
                /\ t <= Len(Block(hs[i]).transactions)
                /\ o <= Len(Block(hs[i]).transactions[t].outputs)}}

\* C5: after update(detached, attached) commits, no live-cell or transaction
\* row of a registered lock carries the creating coordinates of a detached
\* block's output, the rows of the attached blocks' outputs are present, and
\* the outputs the attached blocks consume are not live.  Stated for the
\* events received with every registered lock indexed up to the old tip.
C5_ReorgLeavesNoTrace ==
    (/\ outcome.op = "update" /\ outcome.ok /\ outcome.detached /= <<>>
     /\ DOMAIN outcome.before /= {}
     /\ \A l \in DOMAIN outcome.before :
            l \in covered /\ outcome.before[l].block_hash = outcome.detached[1]) =>
        LET gone == {o \in OutputsOf(outcome.detached) :
                        o.tx_hash \notin TxHashesOf(outcome.attached)}
            new == OutputsOf(outcome.attached)
            spent == InputsOf(outcome.attached)
        IN  /\ \A l \in DOMAIN db.state : \A o \in gone :
                /\ KeyOf(l, o) \notin DOMAIN db.live
                /\ KeyOf(l, o) \notin DOMAIN db.txs
            /\ \A o \in new :
                o.output.lock \in DOMAIN db.state =>
                    /\ KeyOf(o.output.lock, o) \in DOMAIN db.txs
                    /\ PointOf(o) \notin spent
                        => KeyOf(o.output.lock, o) \in DOMAIN db.live
            /\ \A key \in DOMAIN db.live :
                key[1] \in DOMAIN db.state
                    => [tx_hash |-> key[3], index |-> key[4]] \notin spent

----------------------------------------------------------------------------
(* What one batch of attached blocks creates and consumes.                 *)

\* the inputs of the non-cellbase transactions of the blocks hs, each with
\* the block number, transaction hash and input index that consume it
ConsumptionsOf(hs) ==
    {[cell_out_point |-> Block(hs[i]).transactions[t].inputs[n][1],
      by |-> TransactionPoint(Block(hs[i]).number,
                              Block(hs[i]).transactions[t].hash, n - 1)] :
        <<i, t, n>> \in
            {<<i, t, n>> \in (1..Len(hs)) \X (1..MaxTxs) \X (1..MaxInputs) :
                /\ t <= Len(Block(hs[i]).transactions)
                /\ ~is_cellbase(Block(hs[i]).transactions[t])
                /\ n <= Len(Block(hs[i]).transactions[t].inputs)}}

\* the outputs the blocks hs create for a lock of ls and consume themselves,
\* each paired with its consumption
SpentWithin(hs, ls) ==
    {<<o, c>> \in OutputsOf(hs) \X ConsumptionsOf(hs) :
        o.output.lock \in ls /\ c.cell_out_point = PointOf(o)}

\* C11: when the attached blocks of one update event create an output for a
\* registered lock and a later transaction of the same event spends it, then
\* after the batch commits the output has no live-cell row and the
\* transaction row at its creating key is Some(consuming block number,
\* consuming transaction hash, input index).
C11_SameBatchSpend ==
    (outcome.op = "update" /\ outcome.ok) =>
        \A oc \in SpentWithin(outcome.attached, DOMAIN outcome.before) :
            LET key == KeyOf(oc[1].output.lock, oc[1])
            IN  /\ key \notin DOMAIN db.live
                /\ Get(db.txs, key) = Some(Some(oc[2].by))

\* an update committed an event whose attached blocks create an output of a
\* registered lock in one block and spend it in a later block
C11_Witness ==
    /\ outcome.op = "update" /\ outcome.ok
    /\ \E oc \in SpentWithin(outcome.attached, DOMAIN outcome.before) :
        oc[1].number < oc[2].by.block_number

\* every output of every block, with its creating coordinates
AllOutputs == UNION {OutputsOf(<<h>>) : h \in BlockHashes}

\* the creating key of the out-point p under the lock of the output it names
CreatingKey(p) ==
    LET o == CHOOSE x \in AllOutputs : PointOf(x) = p
    IN  KeyOf(o.output.lock, o)

\* the out-points the committed database d indexes for a lock of ls
IndexedFor(d, ls) == {p \in DOMAIN d.cop : d.cop[p].lock_hash \in ls}

\* C12: when an update commits an attached block B with a non-cellbase
\* transaction whose input i spends an out-point P indexed for a registered
\* lock (by an earlier batch, or earlier in the same batch), the live-cell row
\* at P's creating key is absent and the transaction row at that key is
\* Some({B.number, tx.hash, i}); the transaction rows of the outputs that the
\* attached blocks leave unspent stay None.
C12_AttachRecordsConsumption ==
    [][(outcome'.op = "update" /\ outcome'.ok) =>
        LET ls == DOMAIN db.state
            cs == ConsumptionsOf(outcome'.attached)
            new == {o \in OutputsOf(outcome'.attached) : o.output.lock \in ls}
            known == IndexedFor(db, ls) \cup {PointOf(o) : o \in new}
            spent == {c.cell_out_point : c \in cs}
            kept == {k \in DOMAIN db.txs :
                        /\ db.txs[k] = None
                        /\ k[1] \in ls
                        /\ [tx_hash |-> k[3], index |-> k[4]] \notin spent
                        /\ k[3] \notin TxHashesOf(outcome'.detached)}
        IN  /\ \A c \in cs :
                c.cell_out_point \in known =>
                    /\ CreatingKey(c.cell_out_point) \notin DOMAIN db'.live
                    /\ Get(db'.txs, CreatingKey(c.cell_out_point)) = Some(Some(c.by))
            /\ \A o \in new :
                PointOf(o) \notin spent
                    => Get(db'.txs, KeyOf(o.output.lock, o)) = Some(None)
            /\ \A k \in kept : Get(db'.txs, k) = Some(None)]_vars

\* an update committed a block that spends an output of a registered lock
\* indexed by an earlier batch: its transaction row names the consumer
C12_Witness ==
    /\ outcome.op = "update" /\ outcome.ok
    /\ \A l \in DOMAIN outcome.before :
        outcome.before[l].block_number < Block(outcome.attached[1]).number
    /\ \E c \in ConsumptionsOf(outcome.attached) :
        /\ c.cell_out_point.tx_hash \notin TxHashesOf(outcome.attached)
        /\ CreatingKey(c.cell_out_point)[1] \in DOMAIN outcome.before
        /\ Get(db.txs, CreatingKey(c.cell_out_point)) = Some(Some(c.by))

\* C13: remove_lock_hash(L) leaves no live-cell row, no transaction row and
\* no index state of L, and leaves the live-cell rows, the transaction rows
\* and the checkpoint of every other lock as they were; the deletions are one
\* batch, so the committed database goes from the state before to the state
\* after in one step.
C13_RemoveTearsDownOnlyL ==
    [][outcome'.op = "remove" =>
        LET l == outcome'.lock[1]
        IN  /\ DOMAIN LiveCells(db', l) = {}
            /\ DOMAIN Transactions(db', l) = {}
            /\ l \notin DOMAIN get_lock_hash_index_states(db')
            /\ \A m \in Locks \ {l} :
                /\ LiveCells(db', m) = LiveCells(db, m)
                /\ Transactions(db', m) = Transactions(db, m)
                /\ Get(db'.state, m) = Get(db.state, m)]_vars

\* a registered lock that had indexed outputs (an out-point entry of a spent
\* output of its still names it) was removed while another registered lock
\* holds live cells and transaction rows
C13_Witness ==
    /\ outcome.op = "remove"
    /\ outcome.lock[1] \in DOMAIN outcome.before
    /\ \E p \in DOMAIN db.cop : db.cop[p].lock_hash = outcome.lock[1]
    /\ \E m \in DOMAIN db.state :
        DOMAIN LiveCells(db, m) /= {} /\ DOMAIN Transactions(db, m) /= {}

\* C14: along any series of insert_lock_hash and remove_lock_hash calls,
\* get_lock_hash_index_states holds one entry for exactly the locks inserted
\* and not removed afterwards: right after an insert the entries are those
\* from before the call and the lock's entry, which is the tip snapshot (a
\* second insert of a registered lock adds no entry); right after a remove
\* they are those from before the call without the lock's entry (the remove
\* of a lock that is not registered changes nothing).
C14_IndexStatesTrackRegistrations ==
    LET states == get_lock_hash_index_states(db)
    IN  /\ outcome.op = "insert" =>
            /\ DOMAIN states = DOMAIN outcome.before \cup {outcome.lock[1]}
            /\ states[outcome.lock[1]] = LockHashIndexState(tip_number, tip_hash)
            /\ \A m \in DOMAIN outcome.before \ {outcome.lock[1]} :
                states[m] = outcome.before[m]
        /\ outcome.op = "remove" =>
            /\ DOMAIN states = DOMAIN outcome.before \ {outcome.lock[1]}
            /\ \A m \in DOMAIN states : states[m] = outcome.before[m]

\* a lock was inserted, removed and inserted again: the states hold its one entry
C14_Witness ==
    /\ calls = MaxCalls
    /\ outcome.op = "insert"
    /\ outcome.before = EmptyMap
    /\ DOMAIN db.cop /= {}
    /\ Cardinality(DOMAIN get_lock_hash_index_states(db)) = 1

----------------------------------------------------------------------------
(* The paged reads.  The columns are sorted by the bytes of their keys; an *)
(* iterator from a prefix yields the rows at and after it, to the end of   *)
(* the column.  A digit of base ByteBase stands for a byte, and a hash for *)
(* one byte string of its own.                                             *)

ByteBase == 4
\* the digits of a block number and of an output index inside a key
NumberWidth == 2

\* the bytes of the hashes: the place of the hash in an arbitrary order
LockHashOrder == <<"L1", "L2">>
TxHashOrder == <<"g1", "f2", "e1", "cbA", "f1", "b1", "a1">>
as_bytes(hash, order) == <<CHOOSE i \in DOMAIN order : order[i] = hash>>

\* a number as width digits, least significant first
RECURSIVE to_le_bytes(_, _)
to_le_bytes(n, width) ==
    IF width = 0 THEN <<>>
    ELSE <<n % ByteBase>> \o to_le_bytes(n \div ByteBase, width - 1)

\* a number as width digits, most significant first
RECURSIVE to_be_bytes(_, _)
to_be_bytes(n, width) ==
    IF width = 0 THEN <<>>
    ELSE Append(to_be_bytes(n \div ByteBase, width - 1), n % ByteBase)

\* LockHashIndex::to_vec: L || block_number(be) || tx_hash || index(be)
to_vec(lock_hash_index) ==
    as_bytes(lock_hash_index[1], LockHashOrder)
        \o to_be_bytes(lock_hash_index[2], NumberWidth)
        \o as_bytes(lock_hash_index[3], TxHashOrder)
        \o to_be_bytes(lock_hash_index[4], NumberWidth)

\* the order of the keys of a column: bytewise, a proper prefix first
RECURSIVE BytesLess(_, _)
BytesLess(a, b) ==
    IF b = <<>> THEN FALSE
    ELSE IF a = <<>> THEN TRUE
    ELSE IF Head(a) /= Head(b) THEN Head(a) < Head(b)
    ELSE BytesLess(Tail(a), Tail(b))

starts_with(bytes, prefix) ==
    Len(bytes) >= Len(prefix) /\ SubSeq(bytes, 1, Len(prefix)) = prefix

\* the keys of keys in the order of their bytes
RECURSIVE InKeyOrder(_)
InKeyOrder(keys) ==
    IF keys = {} THEN <<>>
    ELSE LET first == CHOOSE k \in keys :
                        \A j \in keys \ {k} : BytesLess(to_vec(k), to_vec(j))
         IN  <<first>> \o InKeyOrder(keys \ {first})

\* db.iter(column, from_key): the keys not below from_key, ascending
Iter(column, from_key) ==
    InKeyOrder({k \in DOMAIN column : ~BytesLess(to_vec(k), from_key)})

Skip(s, n) == SubSeq(s, n + 1, Len(s))
Take(s, n) == SubSeq(s, 1, IF n < Len(s) THEN n ELSE Len(s))

RECURSIVE TakeWhilePrefix(_, _)
TakeWhilePrefix(s, prefix) ==
    IF s = <<>> \/ ~starts_with(to_vec(Head(s)), prefix) THEN <<>>
    ELSE <<Head(s)>> \o TakeWhilePrefix(Tail(s), prefix)

\* iter.skip(skip_num).take(take_num).take_while(starts_with(lock_hash))
Page(column, lock_hash, skip_num, take_num) ==
    LET prefix == as_bytes(lock_hash, LockHashOrder)
    IN  TakeWhilePrefix(Take(Skip(Iter(column, prefix), skip_num), take_num), prefix)

\* store.rs 74-92
get_live_cells(d, lock_hash, skip_num, take_num) ==
    LET keys == Page(d.live, lock_hash, skip_num, take_num)
    IN  [i \in 1..Len(keys) |->
            [created_by |-> TransactionPoint(keys[i][2], keys[i][3], keys[i][4]),
             cell_output |-> d.live[keys[i]]]]

\* store.rs 94-117
get_transactions(d, lock_hash, skip_num, take_num) ==
    LET keys == Page(d.txs, lock_hash, skip_num, take_num)
    IN  [i \in 1..Len(keys) |->
            [created_by |-> TransactionPoint(keys[i][2], keys[i][3], keys[i][4]),
             consumed_by |-> d.txs[keys[i]]]]

MaxSkip == 2
MaxTake == 3
MaxRows == 4

\* a page, as the caller sees it: its rows name their creating coordinates
Read(op, lock_hash, skip_num, take_num, rows) ==
    Some([op |-> op, lock_hash |-> lock_hash, skip_num |-> skip_num,
          take_num |-> take_num, rows |-> rows])

\* WalletStoreBatch::insert_lock_hash_live_cell and insert_lock_hash_transaction
\* (store.rs 490-515) for the output o of some block, in a batch of its own:
\* the rows of the columns are written in any order
PutRow(o) ==
    /\ Cardinality(DOMAIN db.txs) < MaxRows
    /\ KeyOf(o.output.lock, o) \notin DOMAIN db.txs
    /\ db' = [db EXCEPT !.live = Put(@, KeyOf(o.output.lock, o), o.output),
                        !.txs = Put(@, KeyOf(o.output.lock, o), None)]
    /\ page' = None
    /\ UNCHANGED <<stored, index, tip_header, queue, alive, closed, covered, calls,
                   outcome>>
    /\ UNCHANGED providerVars

GetLiveCells(lock_hash, skip_num, take_num) ==
    /\ page' = Read("get_live_cells", lock_hash, skip_num, take_num,
                    get_live_cells(db, lock_hash, skip_num, take_num))
    /\ UNCHANGED <<stored, index, tip_header, queue, db, alive, closed, covered, calls,
                   outcome>>
    /\ UNCHANGED providerVars

GetTransactions(lock_hash, skip_num, take_num) ==
    /\ page' = Read("get_transactions", lock_hash, skip_num, take_num,
                    get_transactions(db, lock_hash, skip_num, take_num))
    /\ UNCHANGED <<stored, index, tip_header, queue, db, alive, closed, covered, calls,
                   outcome>>
    /\ UNCHANGED providerVars

PagesNext ==
    \/ \E o \in AllOutputs : PutRow(o)
    \/ \E l \in Locks : \E skip_num \in 0..MaxSkip : \E take_num \in 0..MaxTake :
        \/ GetLiveCells(l, skip_num, take_num)
        \/ GetTransactions(l, skip_num, take_num)

SpecPages == Init /\ [][PagesNext]_vars

\* the rows of a column under the prefix of a lock, by their creating coordinates
RowsOf(column, lock_hash) ==
    {TransactionPoint(k[2], k[3], k[4]) : k \in {k \in DOMAIN column : k[1] = lock_hash}}

\* the column a read went to
ColumnOf(op) == IF op = "get_live_cells" THEN db.live ELSE db.txs

\* C15: get_live_cells(L, skip, take) and get_transactions(L, skip, take)
\* return only rows whose key has the prefix L, in ascending order of the
\* creating block number, whatever the order the rows were written in, and no
\* row twice; a page that skips nothing holds the first take rows of L, all
\* of them when take is large enough.
C15_PagesOrderedByBlockNumber ==
    page /= None =>
        LET rows == page[1].rows
            of_lock == RowsOf(ColumnOf(page[1].op), page[1].lock_hash)
        IN  /\ \A i \in 1..Len(rows) : rows[i].created_by \in of_lock
            /\ \A i, j \in 1..Len(rows) :
                i < j => /\ rows[i].created_by.block_number
                            <= rows[j].created_by.block_number
                         /\ rows[i].created_by /= rows[j].created_by
            /\ page[1].skip_num = 0 =>
                Len(rows) = IF page[1].take_num < Cardinality(of_lock)
                            THEN page[1].take_num ELSE Cardinality(of_lock)

\* a page of L2 holds its rows of blocks 1 and 4, in this order, while the
\* column holds rows of L1 as well
C15_Witness ==
    /\ page /= None
    /\ page[1].lock_hash = "L2"
    /\ Len(page[1].rows) = 2
    /\ page[1].rows[1].created_by.block_number = 1
    /\ page[1].rows[2].created_by.block_number = 4
    /\ RowsOf(db.txs, "L1") /= {}

----------------------------------------------------------------------------
\* C16: in every reachable state the checkpoint of every registered lock has
\* a block number at or below the block number of the current tip, also
\* after a tip change whose event the update thread has not received yet.
C16_CheckpointAtOrBelowTip ==
    \A l \in DOMAIN get_lock_hash_index_states(db) :
        get_lock_hash_index_states(db)[l].block_number <= tip_number

----------------------------------------------------------------------------
(* The update thread to its end (store.rs 203-215): the chain service      *)
(* publishes tip changes until it drops its end of the channel; the thread *)
(* receives what is left and leaves its loop on the first failed receive.  *)

\* wallet API calls made beside the update thread
MaxThreadCalls == 1

\* the chain service shuts down: no event is published afterwards
CloseChannel ==
    /\ ~closed
    /\ closed' = TRUE
    /\ outcome' = Did("close", TRUE, <<>>, <<>>)
    /\ UNCHANGED <<stored, index, tip_header, queue, db, alive, page, covered, calls>>
    /\ UNCHANGED providerVars

\* a receive that waits while the channel is open and empty
UpdateKeepsWaiting ==
    /\ alive
    /\ closed
    /\ queue = <<>>
    /\ UNCHANGED vars

\* store.rs 210-213: recv fails on the closed and empty channel, the loop breaks
UpdateExit ==
    /\ alive
    /\ closed
    /\ queue = <<>>
    /\ alive' = FALSE
    /\ outcome' = Did("exit", TRUE, <<>>, <<>>)
    /\ UNCHANGED <<stored, index, tip_header, queue, db, closed, page, covered, calls>>
    /\ UNCHANGED providerVars

Register(l, index_from) ==
    /\ calls < MaxThreadCalls
    /\ InsertLockHash(l, index_from)

ThreadNext ==
    \/ \E h \in BlockHashes : ProcessBlock(h)
    \/ Update
    \/ UpdateExit
    \/ CloseChannel
    \/ \E l \in Locks : \E index_from \in {None} \cup {Some(n) : n \in 0..tip_number} :
           Register(l, index_from)

\* the step of the update thread that takes an event off the channel: the
\* steps of Update, told by what they do to the channel
Receive ==
    /\ alive
    /\ queue /= <<>>
    /\ queue' = Tail(queue)

\* the update thread is a thread of its own that does nothing but receive:
\* a receive that can complete does complete
SpecThread ==
    Init /\ [][ThreadNext]_vars /\ WF_queue(Receive) /\ WF_vars(UpdateExit)

\* C18: the update thread applies the events one at a time, in the order
\* they were published; once the channel is closed and drained the thread
\* leaves its loop, and from then on it applies no event.
C18_UpdateThreadTerminates ==
    /\ [][outcome'.op = "update" =>
            /\ alive
            /\ queue /= <<>>
            /\ outcome'.detached = Head(queue).detached_blocks
            /\ outcome'.attached = Head(queue).attached_blocks
            /\ queue' = Tail(queue)]_vars
    /\ (closed /\ queue = <<>>) ~> ~alive
    /\ [][~alive => (~alive' /\ outcome'.op /= "update")]_vars

\* the thread applied events for a registered lock up to the tip, the channel
\* was closed and drained, and the thread left its loop
C18_Witness ==
    /\ closed /\ queue = <<>> /\ ~alive
    /\ outcome.op = "exit"
    /\ tip_number >= 2
    /\ \E l \in DOMAIN db.state :
        /\ db.state[l] = LockHashIndexState(tip_number, tip_hash)
        /\ \E k \in DOMAIN db.txs : k[1] = l /\ k[2] = tip_number

\* every registered lock is indexed up to the tip
Converged ==
    \A l \in DOMAIN get_lock_hash_index_states(db) :
        get_lock_hash_index_states(db)[l] = LockHashIndexState(tip_number, tip_hash)

\* C19: once the chain service has stopped publishing, eventually every
\* registered lock's checkpoint is the last attached block of the last
\* published event, which is the tip (every commit of the model succeeds).
C19_EventualConsistency ==
    closed ~> Converged

----------------------------------------------------------------------------
\* C20: insert_lock_hash(L, index_from) stores the tip as the checkpoint of
\* L.  With Some(from) it replays the canonical blocks from..tip for L in
\* the same batch: afterwards every output of L created in those blocks and
\* not consumed in them is a live cell, those consumed in them are not, and
\* each has its transaction row.  With None it writes no live-cell,
\* transaction or out-point row.  The rows of the other locks stay.
C20_InsertSnapshotsAndReplays ==
    [][outcome'.op = "insert" =>
        LET l == outcome'.lock[1]
            index_from == outcome'.index_from
            hs == IF index_from = None THEN <<>>
                  ELSE SubSeq(index, index_from[1] + 1, Len(index))
            created == {o \in OutputsOf(hs) : o.output.lock = l}
            spent == ConsumptionsOf(hs)
        IN  /\ outcome'.ok
            /\ l \in DOMAIN get_lock_hash_index_states(db')
            /\ get_lock_hash_index_states(db')[l]
                = LockHashIndexState(tip_number, tip_hash)
            /\ index_from = None =>
                /\ db'.live = db.live
                /\ db'.txs = db.txs
                /\ db'.cop = db.cop
            /\ \A o \in created :
                LET by == {c \in spent : c.cell_out_point = PointOf(o)}
                IN  IF by = {}
                    THEN /\ Get(db'.live, KeyOf(l, o)) = Some(o.output)
                         /\ Get(db'.txs, KeyOf(l, o)) = Some(None)
                    ELSE /\ KeyOf(l, o) \notin DOMAIN db'.live
                         /\ \E c \in by : Get(db'.txs, KeyOf(l, o)) = Some(Some(c.by))
            /\ \A m \in Locks \ {l} :
                /\ LiveCells(db', m) = LiveCells(db, m)
                /\ Transactions(db', m) = Transactions(db, m)
                /\ Get(db'.state, m) = Get(db.state, m)]_vars

\* insert_lock_hash(L, Some(from)) with from above genesis replayed blocks
\* that create two outputs of L and consume one of them
C20_Witness ==
    /\ outcome.op = "insert" /\ outcome.ok
    /\ outcome.index_from /= None
    /\ outcome.index_from[1] >= 1
    /\ outcome.lock[1] \notin DOMAIN outcome.before
    /\ \E k \in DOMAIN db.live : k[1] = outcome.lock[1]
    /\ \E k \in DOMAIN db.txs : k[1] = outcome.lock[1] /\ db.txs[k] /= None

----------------------------------------------------------------------------
\* C27: for each registered lock whose checkpoint h is not on the canonical
\* chain, the detach batch of sync_index_states runs to its end, detaches
\* for that lock the block h and its ancestors down to the first one whose
\* parent is canonical (no live-cell or transaction row of the lock keeps
\* the creating coordinates of an output of these blocks), keeps the lock's
\* rows of the blocks at or below that parent, moves the lock's checkpoint
\* to that parent, and leaves the rows and the checkpoints of the other
\* locks alone; with no lock on a fork no transaction row is deleted.
C27_SyncRollsBackForks ==
    [][outcome'.op = "sync" =>
        /\ \A l \in OnFork(db) :
            LET br == Branch(db.state[l].block_hash)
                n == CommonLen(index, br)
                walked == Reverse(SubSeq(br, n + 1, Len(br)))
                r == SyncDetachOne(db, l)
            IN  /\ r.ok
                /\ r.cols.state[l] = LockHashIndexState(n - 1, br[n])
                /\ \A o \in OutputsOf(walked) :
                    o.output.lock = l =>
                        /\ KeyOf(l, o) \notin DOMAIN r.cols.live
                        /\ KeyOf(l, o) \notin DOMAIN r.cols.txs
                /\ \A k \in DOMAIN db.txs :
                    (k[1] = l /\ k[2] <= n - 1) => k \in DOMAIN r.cols.txs
                /\ \A m \in Locks \ {l} :
                    /\ LiveCells(r.cols, m) = LiveCells(db, m)
                    /\ Transactions(r.cols, m) = Transactions(db, m)
                    /\ Get(r.cols.state, m) = Get(db.state, m)
        /\ OnFork(db) = {} =>
            /\ outcome'.ok
            /\ DOMAIN db.txs \subseteq DOMAIN db'.txs
            /\ DOMAIN db.cop \subseteq DOMAIN db'.cop]_vars

----------------------------------------------------------------------------
(* Commits that fail.  db.batch() and batch.commit() return a Result; on   *)
(* Err the wallet logs and goes on (store.rs 220-234, 560-565), and the    *)
(* store shows nothing of the batch.                                       *)

\* wallet API calls made beside batches that fail
MaxCommitCalls == 2
\* the blocks processed beside batches that fail
CommitBlocks == {"A", "B", "C", "Bf"}

\* commit_batch failing the whole call on an Err
commit_batch_unwrap(d, r, io_ok) ==
    IF io_ok THEN r ELSE [cols |-> d, ok |-> FALSE]

\* store.rs 220-234: r is what the call leaves when the write succeeds
commit_batch(d, r, io_ok) ==
    IF io_ok THEN r ELSE [cols |-> d, ok |-> r.ok]

\* the call wrote in vain: the record of it
Dropped(did, io) == [did EXCEPT !.io = Some(io)]

\* store.rs 205-215 and 305-329: the batch of the event is built and not written
UpdateDropped ==
    /\ alive
    /\ queue /= <<>>
    /\ DOMAIN get_lock_hash_index_states(db) /= {}
    /\ LET tip_changes == Head(queue)
           built == update(db, tip_changes.detached_blocks, tip_changes.attached_blocks)
           r == commit_batch(db, built, FALSE)
       IN  /\ built.ok
           /\ db' = r.cols
           /\ alive' = r.ok
           /\ outcome' = Dropped(Did("update", r.ok, tip_changes.detached_blocks,
                                    tip_changes.attached_blocks), <<FALSE>>)
    /\ queue' = Tail(queue)
    /\ UNCHANGED <<stored, index, tip_header, closed, page, covered, calls>>
    /\ UNCHANGED providerVars

InsertLockHashDropped(l, index_from) ==
    /\ calls < MaxCalls
    /\ LET r == commit_batch(db, insert_lock_hash(db, l, index_from), FALSE)
       IN  /\ db' = r.cols
           /\ outcome' = Dropped([DidFor("insert", r.ok, l)
                                    EXCEPT !.index_from = index_from], <<FALSE>>)
    /\ calls' = calls + 1
    /\ UNCHANGED <<stored, index, tip_header, queue, alive, closed, page, covered>>
    /\ UNCHANGED providerVars

RemoveLockHashDropped(l) ==
    /\ calls < MaxCalls
    /\ LET r == commit_batch(db, remove_lock_hash(db, l), FALSE)
       IN  /\ db' = r.cols
           /\ outcome' = Dropped(DidFor("remove", r.ok, l), <<FALSE>>)
    /\ calls' = calls + 1
    /\ UNCHANGED <<stored, index, tip_header, queue, alive, closed, page, covered>>
    /\ UNCHANGED providerVars

\* store.rs 247-275 with the writes of the batches succeeding as io says
RECURSIVE SyncDetachAllIo(_, _, _, _)
SyncDetachAllIo(r, order, i, io) ==
    IF i > Len(order) \/ ~r.ok THEN r
    ELSE SyncDetachAllIo(commit_batch(r.cols, SyncDetachOne(r.cols, order[i]), io[i]),
                         order, i + 1, io)

\* store.rs 236-303 with the writes of the batches succeeding as io says
sync_index_states_io(d, order, io) ==
    IF DOMAIN get_lock_hash_index_states(d) = {} THEN [cols |-> d, ok |-> TRUE]
    ELSE LET r == SyncDetachAllIo([cols |-> d, ok |-> TRUE], order, 1, io)
         IN  IF r.ok THEN commit_batch(r.cols, SyncAttach(r.cols), io[Len(order) + 1])
             ELSE r

SyncIndexStatesDropped(order, io) ==
    /\ calls < MaxCalls
    /\ DOMAIN get_lock_hash_index_states(db) /= {}
    /\ LET r == sync_index_states_io(db, order, io)
       IN  /\ db' = r.cols
           /\ outcome' = Dropped(Did("sync", r.ok, <<>>, <<>>), io)
    /\ calls' = calls + 1
    /\ UNCHANGED <<stored, index, tip_header, queue, alive, closed, page, covered>>
    /\ UNCHANGED providerVars

\* the outcomes of the writes of a sync over the locks of order, one failing at least
FailingIo(order) ==
    {io \in [1..(Len(order) + 1) -> BOOLEAN] : \E i \in DOMAIN io : ~io[i]}

CommitNext ==
    \/ \E h \in CommitBlocks : ProcessBlock(h)
    \/ Update
    \/ UpdateDropped
    \/ /\ calls < MaxCommitCalls
       /\ \E l \in Locks : \E index_from \in {None} \cup {Some(n) : n \in 0..tip_number} :
            \/ InsertLockHash(l, index_from)
            \/ InsertLockHashDropped(l, index_from)
    \/ /\ calls < MaxCommitCalls
       /\ \E l \in Locks : RemoveLockHash(l) \/ RemoveLockHashDropped(l)
    \/ /\ calls < MaxCommitCalls
       /\ \E order \in Orders(OnFork(db)) :
            \/ SyncIndexStates(order)
            \/ \E io \in FailingIo(order) : SyncIndexStatesDropped(order, io)

SpecCommit == Init /\ [][CommitNext]_vars

\* C24: when the commit of the batch of an update, an insert_lock_hash or a
\* remove_lock_hash fails, the four columns are as they were before the
\* call: no put or delete of the batch shows, and no checkpoint moves; the
\* same holds for a sync_index_states all of whose batches fail, and a sync
\* whose last batch fails moves no checkpoint forward.  The update thread
\* is running afterwards, and the event is consumed.
C24_FailedCommitLeavesIndexUnchanged ==
    [][outcome'.io /= None =>
        /\ alive' = alive
        /\ outcome'.op \in {"update", "insert", "remove"} =>
            /\ outcome'.ok
            /\ db' = db
        /\ outcome'.op = "update" => (alive' /\ queue' = Tail(queue))
        /\ outcome'.op = "sync" =>
            LET io == outcome'.io[1]
            IN  /\ (\A i \in DOMAIN io : ~io[i]) => db' = db
                /\ ~io[Len(io)] =>
                    \A l \in DOMAIN db'.state :
                        /\ l \in DOMAIN db.state
                        /\ db'.state[l].block_number <= db.state[l].block_number
                        /\ db'.state[l] /= db.state[l] =>
                                db.state[l].block_hash \notin Range(index)]_vars

\* the batch of a tip change that creates an output of a registered lock
\* failed to commit: the lock has no row of that block, its checkpoint is
\* below the block, and the thread is running
C24_Witness ==
    /\ outcome.op = "update" /\ outcome.io /= None
    /\ alive
    /\ \E l \in DOMAIN db.state :
        /\ \E o \in OutputsOf(outcome.attached) :
            o.output.lock = l /\ KeyOf(l, o) \notin DOMAIN db.txs
        /\ db.state[l].block_number < Block(outcome.attached[1]).number

\* C25: when the batch of a tip-change event failed to commit and the batch
\* of the next event commits, the index holds the rows of the blocks of the
\* failed event as well: for every registered lock that replayed its whole
\* history, the outputs the failed event's blocks create for it on the
\* canonical chain have their transaction rows, and the live cells and the
\* transaction rows are those of the canonical chain up to its checkpoint.
\* Stated for two events in a row that only attach blocks, the first
\* received with every checkpoint on the parent of its first block.
C25_NextEventReplaysDroppedBatch ==
    [][(/\ outcome.op = "update" /\ outcome.io /= None
        /\ outcome.detached = <<>>
        /\ \A l \in DOMAIN outcome.before :
            outcome.before[l].block_hash = Block(outcome.attached[1]).parent_hash
        /\ outcome'.op = "update" /\ outcome'.io = None /\ outcome'.ok
        /\ outcome'.detached = <<>>) =>
        \A l \in DOMAIN db'.state :
            l \in covered =>
                /\ \A o \in OutputsOf(outcome.attached) :
                        (o.output.lock = l
                            /\ o.tx_hash \in TxHashesOf(Branch(db'.state[l].block_hash)))
                        => KeyOf(l, o) \in DOMAIN db'.txs
                /\ LiveCells(db', l) = ExpectedLive(l, db'.state[l].block_hash)
                /\ Transactions(db', l)
                        = ExpectedTransactions(l, db'.state[l].block_hash)]_vars

----------------------------------------------------------------------------
(* update called with the lists of a tip change of any shape, as the tests *)
(* call it (store.rs 713, 724): also one that attaches nothing.            *)

\* the blocks processed beside the direct calls of update
UpdateBlocks == {"A", "B", "Bf"}
\* the lists update is called with
DetachedLists == {<<>>, <<"A">>, <<"B">>, <<"Bf">>}
AttachedLists == {<<>>, <<"A">>, <<"A", "B">>, <<"B">>, <<"Bf">>}

\* store.rs 305-329, called by a caller of its own
UpdateDirect(detached_blocks, attached_blocks) ==
    /\ calls < MaxCalls
    /\ LET r == update(db, detached_blocks, attached_blocks)
       IN  /\ db' = r.cols
           /\ outcome' = Did("update", r.ok, detached_blocks, attached_blocks)
    /\ calls' = calls + 1
    /\ UNCHANGED <<stored, index, tip_header, queue, alive, closed, page, covered>>
    /\ UNCHANGED providerVars

UpdateNext ==
    \/ \E h \in UpdateBlocks : ProcessBlock(h)
    \/ \E l \in Locks : \E index_from \in {None} \cup {Some(n) : n \in 0..tip_number} :
           InsertLockHash(l, index_from)
    \/ \E detached_blocks \in DetachedLists : \E attached_blocks \in AttachedLists :
           UpdateDirect(detached_blocks, attached_blocks)

SpecUpdate == Init /\ [][UpdateNext]_vars

\* C26: after update(detached, attached) commits with a non-empty attached
\* list, every lock registered when the call read the index states has the
\* checkpoint {last_attached.number, last_attached.hash} and no other lock
\* has one; with no lock registered the update writes nothing; with an empty
\* attached list no checkpoint is changed.
C26_UpdateWritesCheckpoint ==
    [][(outcome'.op = "update" /\ outcome'.ok) =>
        LET ls == DOMAIN get_lock_hash_index_states(db)
            attached == outcome'.attached
            last == Block(attached[Len(attached)])
        IN  /\ ls = {} => db' = db
            /\ (ls /= {} /\ attached /= <<>>) =>
                /\ DOMAIN get_lock_hash_index_states(db') = ls
                /\ \A l \in ls :
                    get_lock_hash_index_states(db')[l]
                        = LockHashIndexState(last.number, last.hash)
            /\ attached = <<>> =>
                get_lock_hash_index_states(db') = get_lock_hash_index_states(db)]_vars

\* two locks registered at different checkpoints, and an update of two
\* attached blocks committed: both checkpoints are the last attached block
C26_Witness ==
    /\ outcome.op = "update" /\ outcome.ok
    /\ Len(outcome.attached) = 2
    /\ DOMAIN outcome.before = Locks
    /\ \E l, m \in Locks : outcome.before[l] /= outcome.before[m]
    /\ \A l \in Locks :
        db.state[l] = LockHashIndexState(Block(outcome.attached[2]).number,
                                         outcome.attached[2])

----------------------------------------------------------------------------
(* The columns together.                                                   *)

\* the out-points the blocks hs spend whose CELL_OUT_POINT_LOCK_HASH entry
\* names a lock of locks and carries no cell output
SpentWithoutOutput(d, locks, hs) ==
    {p \in InputsOf(hs) :
        /\ get_lock_hash_cell_output(d, p) /= None
        /\ get_lock_hash_cell_output(d, p)[1].lock_hash \in locks
        /\ get_lock_hash_cell_output(d, p)[1].cell_output = None}

\* C35: whenever update or sync_index_states detaches a block, every input of
\* it whose CELL_OUT_POINT_LOCK_HASH entry names a registered lock finds the
\* cell output in that entry, so that detach_block does not panic with
\* "inconsistent state", whether the output was created in the batch that
\* spent it or in an earlier one.
C35_DetachFindsCellOutput ==
    [][/\ outcome'.op = "update" =>
            /\ SpentWithoutOutput(db, DOMAIN db.state, outcome'.detached) = {}
            /\ outcome'.ok
       /\ outcome'.op = "sync" =>
            /\ \A l \in OnFork(db) :
                LET br == Branch(db.state[l].block_hash)
                    n == CommonLen(index, br)
                IN  SpentWithoutOutput(db, {l}, SubSeq(br, n + 1, Len(br))) = {}
            /\ outcome'.ok]_vars

C37_NoOrphanedOutPoints ==
    \A p \in DOMAIN db.cop :
        /\ db.cop[p].lock_hash \in DOMAIN db.state
        /\ LockHashIndex(db.cop[p].lock_hash, db.cop[p].block_number,
                         p.tx_hash, p.index) \in DOMAIN db.txs

----------------------------------------------------------------------------
(* update beside the wallet API.  update reads the registered locks, then  *)
(* builds and commits its batch, and holds no lock meanwhile: a call of    *)
(* insert_lock_hash or remove_lock_hash may commit between the two.        *)

\* store.rs 308-328: the batch of update for the lock hashes it has read
update_batch(d, index_lock_hashes, detached_blocks, attached_blocks) ==
    LET st1 == DetachBlocks(d, NewBatch(d), index_lock_hashes, detached_blocks, 1)
        st2 == AttachBlocks(d, st1, index_lock_hashes, attached_blocks, 1)
        block == Block(attached_blocks[Len(attached_blocks)])
        st3 == IF attached_blocks /= <<>> /\ ~st2.panic
               THEN PutStates(st2, index_lock_hashes,
                              LockHashIndexState(block.number, block.hash))
               ELSE st2
    IN  IF index_lock_hashes /= {}
        THEN [cols |-> Commit(d, st3), ok |-> ~st3.panic]
        ELSE [cols |-> d, ok |-> TRUE]

\* store.rs 205-215, 306-307: the thread receives an event and reads the locks
UpdateRead ==
    /\ alive
    /\ queue /= <<>>
    /\ lookup = None
    /\ lookup' = [op |-> "update", pc |-> "read",
                  index_lock_hashes |-> DOMAIN get_lock_hash_index_states(db),
                  tip_changes |-> Head(queue)]
    /\ queue' = Tail(queue)
    /\ UNCHANGED <<stored, index, tip_header, db, alive, closed, page, covered,
                   calls, outcome>>
    /\ UNCHANGED <<reader, retarget, blocks, finalized>>

\* store.rs 308-328: the thread builds its batch and commits it
UpdateCommit ==
    /\ lookup /= None
    /\ lookup.op = "update"
    /\ LET tip_changes == lookup.tip_changes
           r == update_batch(db, lookup.index_lock_hashes,
                             tip_changes.detached_blocks, tip_changes.attached_blocks)
       IN  /\ db' = r.cols
           /\ alive' = r.ok
           /\ outcome' = Did("update", r.ok, tip_changes.detached_blocks,
                          tip_changes.attached_blocks)
    /\ lookup' = None
    /\ UNCHANGED <<stored, index, tip_header, queue, closed, page, covered, calls>>
    /\ UNCHANGED <<reader, retarget, blocks, finalized>>

RaceNext ==
    \/ \E h \in ApiBlocks : ProcessBlock(h)
    \/ UpdateRead
    \/ UpdateCommit
    \/ \E l \in Locks : \E index_from \in {None} \cup {Some(n) : n \in 0..tip_number} :
           InsertLockHash(l, index_from)
    \/ \E l \in Locks : RemoveLockHash(l)

SpecRace == Init /\ [][RaceNext]_vars

\* the lock has no checkpoint and no LIVE_CELL or TRANSACTION row
Unregistered(d, l) ==
    /\ l \notin DOMAIN d.state
    /\ \A k \in DOMAIN d.live : k[1] /= l
    /\ \A k \in DOMAIN d.txs : k[1] /= l

\* C34: a lock that has no checkpoint and no rows, as after a committed
\* remove_lock_hash, stays so through every step that is not a call of the
\* wallet API, whatever the update thread had read before the removal.
C34_RemovalIsNotUndone ==
    [][calls' = calls =>
        \A l \in Locks : Unregistered(db, l) => Unregistered(db', l)]_vars

----------------------------------------------------------------------------
(* Blocks attached a second time.  insert_lock_hash with index_from on a   *)
(* registered lock, and sync_index_states when the checkpoints differ,     *)
(* attach canonical blocks for a lock whose rows hold them already.        *)

ResyncNext ==
    \/ \E h \in ApiBlocks : ProcessBlock(h)
    \/ Update
    \/ \E l \in Locks : \E index_from \in {None} \cup {Some(n) : n \in 0..tip_number} :
           InsertLockHash(l, index_from)
    \/ \E order \in Orders(OnFork(db)) : SyncIndexStates(order)

SpecResync == Init /\ [][ResyncNext]_vars

\* the rows of the lock are those of the canonical chain, and its checkpoint
\* is the tip
ReflectsTip(d, l) ==
    /\ l \in DOMAIN d.state
    /\ d.state[l] = LockHashIndexState(tip_number, tip_hash)
    /\ LiveCells(d, l) = ExpectedLive(l, tip_hash)
    /\ Transactions(d, l) = ExpectedTransactions(l, tip_hash)

\* the step attaches blocks for the lock l, whose checkpoint is the tip
Reattaches(l) ==
    IF outcome'.op = "insert"
    THEN /\ outcome'.lock = Some(l)
         /\ outcome'.index_from /= None
    ELSE \E m \in DOMAIN db.state :
            db.state[m] /= LockHashIndexState(tip_number, tip_hash)

\* C38: when insert_lock_hash with index_from, or sync_index_states, attaches
\* canonical blocks up to the tip for a lock whose rows already reflect the
\* chain up to the tip, the lock's LIVE_CELL and TRANSACTION rows after the
\* call are those before it.
C38_ReattachIsIdempotent ==
    [][(outcome'.op \in {"insert", "sync"} /\ calls' = calls + 1) =>
        \A l \in Locks :
            (ReflectsTip(db, l) /\ Reattaches(l))
                => /\ LiveCells(db', l) = LiveCells(db, l)
                   /\ Transactions(db', l) = Transactions(db, l)]_vars

\* sync_index_states has attached again, for a lock that was indexed up to the
\* tip from its first output on, a block that creates an output of the lock
\* and a block that spends it, while another lock was two blocks behind
C38_Witness ==
    /\ outcome.op = "sync"
    /\ outcome.ok
    /\ \E l \in DOMAIN outcome.before \cap covered :
        /\ outcome.before[l] = LockHashIndexState(tip_number, tip_hash)
        /\ \E m \in DOMAIN outcome.before : outcome.before[m].block_number + 1 < tip_number
        /\ ReflectsTip(db, l)
        /\ \E k \in DOMAIN Transactions(db, l) : Transactions(db, l)[k] /= None

----------------------------------------------------------------------------
(* attach_block and detach_block on their own (store.rs 331-459): a call   *)
(* with a set of lock hashes and a block, on a fresh batch over the        *)
(* database the wallet has reached.                                        *)

FrameBlocks == {"A", "B", "Bf", "Cf"}

\* the wallet calls attach_block or detach_block and the call returns
BlockCall(op, index_lock_hashes, h) ==
    /\ lookup = None
    /\ lookup' = [op |-> op, pc |-> "returned",
                  index_lock_hashes |-> index_lock_hashes, block |-> h,
                  result |-> IF op = "attach_block"
                             THEN attach_block(db, NewBatch(db), index_lock_hashes, Block(h))
                             ELSE detach_block(db, NewBatch(db), index_lock_hashes, Block(h))]
    /\ UNCHANGED <<stored, index, tip_header, queue, db, alive, closed, page, covered,
                   calls, outcome>>
    /\ UNCHANGED <<reader, retarget, blocks, finalized>>

FrameNext ==
    \/ /\ lookup = None
       /\ \/ \E h \in ApiBlocks : ProcessBlock(h)
          \/ Update
          \/ \E l \in Locks : \E index_from \in {None} \cup {Some(n) : n \in 0..tip_number} :
                InsertLockHash(l, index_from)
    \/ \E op \in {"attach_block", "detach_block"} : \E index_lock_hashes \in SUBSET Locks :
        \E h \in FrameBlocks : BlockCall(op, index_lock_hashes, h)

SpecFrame == Init /\ [][FrameNext]_vars

\* the block has an output locked by a lock of S, or an input of a transaction
\* that is not a cellbase whose previous output has an entry for a lock of S
Touches(d, S, block) ==
    \E t \in DOMAIN block.transactions :
        LET tx == block.transactions[t]
        IN  \/ \E o \in DOMAIN tx.outputs : tx.outputs[o].lock \in S
            \/ /\ ~is_cellbase(tx)
               /\ \E i \in DOMAIN tx.inputs :
                    /\ tx.inputs[i] /= NullOutPoint
                    /\ get_lock_hash_cell_output(d, tx.inputs[i][1]) /= None
                    /\ get_lock_hash_cell_output(d, tx.inputs[i][1])[1].lock_hash \in S

\* the keys at which two columns differ
Changed(before, after) ==
    {k \in DOMAIN before \cup DOMAIN after : Get(before, k) /= Get(after, k)}

\* C39: attach_block and detach_block called with the lock set S change the
\* LIVE_CELL and TRANSACTION columns only at keys whose lock hash is in S and
\* the CELL_OUT_POINT_LOCK_HASH column only at entries of a lock of S, and
\* leave the index states alone; the null input of a cellbase is never
\* unwrapped; and a block with no output locked by S and no input whose
\* previous output has an entry of a lock of S leaves the three columns as
\* they were.
C39_AttachDetachFrame ==
    (lookup /= None /\ lookup.op \in {"attach_block", "detach_block"}) =>
        LET S == lookup.index_lock_hashes
            block == Block(lookup.block)
            st == lookup.result
        IN  /\ \A k \in Changed(db.live, st.cols.live) \cup Changed(db.txs, st.cols.txs) :
                    k[1] \in S
            /\ \A p \in Changed(db.cop, st.cols.cop) :
                    /\ p \in DOMAIN db.cop => db.cop[p].lock_hash \in S
                    /\ p \in DOMAIN st.cols.cop => st.cols.cop[p].lock_hash \in S
            /\ st.cols.state = db.state
            /\ lookup.op = "attach_block" => ~st.panic
            /\ ~Touches(db, S, block) =>
                    /\ ~st.panic
                    /\ st.cols = db
                    /\ st.buffer = EmptyMap

\* attach_block for {L1} has returned on block Cf, whose transaction spends an
\* output of L2 that has an entry and creates an output of L1, over a database
\* that holds rows of L2
C39_Witness ==
    /\ lookup /= None
    /\ lookup.op = "attach_block"
    /\ lookup.index_lock_hashes = {"L1"}
    /\ lookup.block = "Cf"
    /\ [tx_hash |-> "cbA", index |-> 0] \in DOMAIN db.cop
    /\ \E k \in DOMAIN db.live : k[1] = "L2"
    /\ Changed(db.live, lookup.result.cols.live) /= {}

----------------------------------------------------------------------------
(* The chain provider under a concurrent writer (shared.rs).  The writer   *)
(* commits a block and the index to the store, then replaces the TipHeader;*)
(* a reader takes one step per read of the store or of the TipHeader cell. *)
(* A header is named by its hash: Block(h) gives its number and parent.    *)

MaxNumber == 4

get_header(hash) == IF hash \in stored THEN Some(hash) ELSE None

\* the writer stores a block and, when it is the better chain, the new index
InsertBlock(h) ==
    /\ tip_header = tip_hash
    /\ h \notin stored
    /\ Block(h).parent_hash \in stored
    /\ stored' = stored \cup {h}
    /\ index' = IF Block(h).td > Block(tip_hash).td THEN Branch(h) ELSE index
    /\ UNCHANGED <<tip_header, reader>>
    /\ UNCHANGED <<walletVars, calcVars>>

\* the writer replaces the TipHeader after the commit
UpdateTip ==
    /\ tip_header /= tip_hash
    /\ tip_header' = tip_hash
    /\ UNCHANGED <<stored, index, reader>>
    /\ UNCHANGED <<walletVars, calcVars>>

Done(r, result) == [r EXCEPT !.pc = "done", !.result = result]

\* the reader calls block_header(hash); ret says where the call returns to
CallBlockHeader(r, hash, ret) == [r EXCEPT !.pc = "bh_compare", !.arg = hash, !.ret = ret]

\* shared.rs 283: get_ancestor(base, number) is called
GetAncestorCall(base, number) ==
    /\ reader.pc = "idle"
    /\ reader' = [pc |-> "block_number", base |-> base, number |-> number,
                  arg |-> base, ret |-> "main", n_number |-> 0,
                  index_walk |-> base, result |-> None]
    /\ UNCHANGED <<stored, index, tip_header>>
    /\ UNCHANGED <<walletVars, calcVars>>

\* shared.rs 285-295: block_number(base) and the three-way branch on it
GetAncestorBlockNumber ==
    /\ reader.pc = "block_number"
    /\ LET found == block_number(reader.base)
       IN  reader' =
            IF found /= None
            THEN IF reader.number > found[1] THEN Done(reader, None)
                 ELSE IF reader.number = found[1] THEN [reader EXCEPT !.pc = "read_tip"]
                 ELSE [reader EXCEPT !.pc = "block_hash"]
            ELSE CallBlockHeader(reader, reader.base, "fork_base")
    /\ UNCHANGED <<stored, index, tip_header>>
    /\ UNCHANGED <<walletVars, calcVars>>

\* shared.rs 289: Some(self.tip_header.read().inner().clone())
GetAncestorReadTip ==
    /\ reader.pc = "read_tip"
    /\ reader' = Done(reader, Some(tip_header))
    /\ UNCHANGED <<stored, index, tip_header>>
    /\ UNCHANGED <<walletVars, calcVars>>

\* shared.rs 291-293: block_hash(number).and_then(block_header)
GetAncestorBlockHash ==
    /\ reader.pc = "block_hash"
    /\ LET found == block_hash(reader.number)
       IN  reader' = IF found = None THEN Done(reader, None)
                     ELSE CallBlockHeader(reader, found[1], "main")
    /\ UNCHANGED <<stored, index, tip_header>>
    /\ UNCHANGED <<walletVars, calcVars>>

(* union_proposal_ids_n (shared.rs 318-345) beside the writer.  The ids a  *)
(* block proposes and the uncles it carries are stored with the block.     *)

\* the most blocks a window of proposals is asked for
MaxWindow == 3

\* the proposal short ids of the blocks, as their headers list them
ProposalIds(h) ==
    CASE h = "G"  -> <<>>
      [] h = "A"  -> <<1>>
      [] h = "B"  -> <<2, 1>>
      [] h = "C"  -> <<>>
      [] h = "D"  -> <<3>>
      [] h = "Bf" -> <<3, 3>>
      [] h = "Cf" -> <<>>

UncleBlock(proposal_transactions) == [proposal_transactions |-> proposal_transactions]

\* the uncles of the blocks
UncleBlocks(h) ==
    CASE h = "B"  -> <<UncleBlock(<<2, 3>>)>>
      [] h = "C"  -> <<UncleBlock(<<1>>), UncleBlock(<<>>)>>
      [] h = "Cf" -> <<UncleBlock(<<2>>)>>
      [] OTHER    -> <<>>

get_block_proposal_txs_ids(hash) ==
    IF hash \in stored THEN Some(ProposalIds(hash)) ELSE None

get_block_uncles(hash) ==
    IF hash \in stored THEN Some(UncleBlocks(hash)) ELSE None

\* shared.rs 324-335: ids_set after the two extends
ids_set(hash) ==
    LET ids == get_block_proposal_txs_ids(hash)
        us == get_block_uncles(hash)
    IN  (IF ids /= None THEN Range(ids[1]) ELSE {})
            \cup (IF us /= None
                  THEN UNION {Range(us[1][u].proposal_transactions) : u \in DOMAIN us[1]}
                  ELSE {})

\* shared.rs 318-320: union_proposal_ids_n(bn, n) is called
UnionProposalIdsCall(bn, n) ==
    /\ reader.pc = "idle"
    /\ reader' = [pc |-> "union_block_hash", bn |-> bn, n |-> n,
                  m |-> IF bn > n THEN n ELSE bn,
                  arg |-> "G", ret |-> "union", start |-> None, hash |-> "G",
                  i |-> 0, vec |-> <<>>]
    /\ UNCHANGED <<stored, index, tip_header>>
    /\ UNCHANGED <<walletVars, calcVars>>

\* shared.rs 322-323: block_hash(bn), and the loop entered or not
UnionProposalIdsBlockHash ==
    /\ reader.pc = "union_block_hash"
    /\ LET found == block_hash(reader.bn)
       IN  reader' =
            IF found = None \/ reader.m = 0
            THEN [reader EXCEPT !.pc = "union_done", !.start = found]
            ELSE [reader EXCEPT !.pc = "union_collect", !.start = found,
                                !.hash = found[1]]
    /\ UNCHANGED <<stored, index, tip_header>>
    /\ UNCHANGED <<walletVars, calcVars>>

\* shared.rs 324-340: one set is collected into a vector, in the order the
\* hash set yields it, and pushed; block_header(&hash) is called
UnionProposalIdsCollect ==
    /\ reader.pc = "union_collect"
    /\ \E ids_vec \in Orders(ids_set(reader.hash)) :
        reader' = [CallBlockHeader(reader, reader.hash, "union")
                      EXCEPT !.vec = Append(@, ids_vec)]
    /\ UNCHANGED <<stored, index, tip_header>>
    /\ UNCHANGED <<walletVars, calcVars>>

\* shared.rs 340-341: hash = header.unwrap().parent_hash(), and the next round
UnionProposalIdsReturn(r, header) ==
    IF header = None THEN [r EXCEPT !.pc = "union_panicked"]
    ELSE [r EXCEPT !.hash = Block(header[1]).parent_hash,
                   !.i = @ + 1,
                   !.pc = IF r.i + 1 < r.m THEN "union_collect" ELSE "union_done"]

\* the caller takes the vector
UnionProposalIdsTaken ==
    /\ reader.pc = "union_done"
    /\ reader' = Idle
    /\ UNCHANGED <<stored, index, tip_header>>
    /\ UNCHANGED <<walletVars, calcVars>>

\* shared.rs 297-314: what get_ancestor does with the header block_header returns
BlockHeaderReturn(r, header) ==
    IF r.ret = "union" THEN UnionProposalIdsReturn(r, header)
    ELSE IF r.ret = "main" THEN Done(r, header)
    ELSE IF header = None THEN Done(r, None)
    ELSE LET n_number == IF r.ret = "fork_base" THEN Block(header[1]).number
                         ELSE r.n_number - 1
         IN  IF r.number > n_number THEN Done(r, None)
             ELSE IF n_number > r.number
             THEN [CallBlockHeader(r, Block(header[1]).parent_hash, "walk")
                      EXCEPT !.n_number = n_number, !.index_walk = header[1]]
             ELSE Done([r EXCEPT !.n_number = n_number, !.index_walk = header[1]],
                       Some(header[1]))

\* shared.rs 224: the comparison of the tip's hash with the hash asked for
BlockHeaderCompare ==
    /\ reader.pc = "bh_compare"
    /\ reader' = [reader EXCEPT !.pc = IF tip_header = reader.arg
                                       THEN "bh_tip" ELSE "bh_store"]
    /\ UNCHANGED <<stored, index, tip_header>>
    /\ UNCHANGED <<walletVars, calcVars>>

\* shared.rs 225: the second read of the TipHeader
BlockHeaderTip ==
    /\ reader.pc = "bh_tip"
    /\ reader' = BlockHeaderReturn(reader, Some(tip_header))
    /\ UNCHANGED <<stored, index, tip_header>>
    /\ UNCHANGED <<walletVars, calcVars>>

\* shared.rs 227: self.store.get_header(hash)
BlockHeaderStore ==
    /\ reader.pc = "bh_store"
    /\ reader' = BlockHeaderReturn(reader, get_header(reader.arg))
    /\ UNCHANGED <<stored, index, tip_header>>
    /\ UNCHANGED <<walletVars, calcVars>>

\* the caller takes the result
GetAncestorReturn ==
    /\ reader.pc = "done"
    /\ reader' = Idle
    /\ UNCHANGED <<stored, index, tip_header>>
    /\ UNCHANGED <<walletVars, calcVars>>

ProviderNext ==
    \/ \E h \in BlockHashes : InsertBlock(h)
    \/ UpdateTip
    \/ \E base \in BlockHashes : \E number \in 0..MaxNumber : GetAncestorCall(base, number)
    \/ GetAncestorBlockNumber
    \/ GetAncestorReadTip
    \/ GetAncestorBlockHash
    \/ BlockHeaderCompare
    \/ BlockHeaderTip
    \/ BlockHeaderStore
    \/ GetAncestorReturn
    \/ \E bn \in 0..MaxNumber : \E n \in 0..MaxWindow : UnionProposalIdsCall(bn, n)
    \/ UnionProposalIdsBlockHash
    \/ UnionProposalIdsCollect
    \/ UnionProposalIdsTaken

SpecProvider == Init /\ [][ProviderNext]_vars

\* the blocks reachable from h by parent links, h included
Ancestors(h) == {Branch(h)[i] : i \in 1..Len(Branch(h))}

\* C6: whenever get_ancestor(h, n) returns Some(header), header.number = n and
\* header is reachable from h by parent links.
C6_AncestorCorrectness ==
    (reader.pc = "done" /\ reader.result /= None) =>
        /\ Block(reader.result[1]).number = reader.number
        /\ reader.result[1] \in Ancestors(reader.base)

\* C28: get_ancestor(base, target) returns None when target is above the
\* number of base and when the store does not know base; when base is on the
\* canonical chain and target is at most its number, it returns the header
\* stored under the canonical hash at height target (the writer at rest, so
\* that the TipHeader is the canonical tip).
C28_AncestorResolution ==
    [][(reader.pc /= "done" /\ reader'.pc = "done") =>
        /\ reader'.number > Block(reader'.base).number => reader'.result = None
        /\ reader'.base \notin stored => reader'.result = None
        /\ (/\ tip_header = tip_hash
            /\ block_number(reader'.base) /= None
            /\ reader'.number <= Block(reader'.base).number)
                => reader'.result = block_hash(reader'.number)]_vars

\* C33: block_header(hash) returns None or the header whose hash is the one
\* asked for, also when the writer replaces the TipHeader between the call's
\* comparison with the tip's hash and its read of the tip's header; and
\* get_ancestor hands that header on when it returns what block_header gave.
C33_BlockHeaderIsTheOneAskedFor ==
    [][(reader.pc \in {"bh_tip", "bh_store"} /\ reader'.pc /= reader.pc) =>
        LET header == IF reader.pc = "bh_tip" THEN Some(tip_header)
                      ELSE get_header(reader.arg)
        IN  /\ header = None \/ header[1] = reader.arg
            /\ (reader.ret = "main" /\ reader'.pc = "done")
                    => reader'.result = header]_vars

\* the ids the block h proposes, with those its uncles carry
ProposedIn(h) ==
    Range(ProposalIds(h))
        \cup UNION {Range(UncleBlocks(h)[u].proposal_transactions) :
                        u \in DOMAIN UncleBlocks(h)}

\* C21: union_proposal_ids_n(bn, n) returns an empty vector when there is no
\* canonical hash at bn; otherwise it returns min(n, bn) elements, element i
\* holding, each once, exactly the proposal ids of the block at height bn - i
\* on the parent links of the canonical block at bn and the ids its uncles
\* carry, newest block first.
C21_UnionProposalIds ==
    reader.pc = "union_done" =>
        IF reader.start = None THEN reader.vec = <<>>
        ELSE /\ Len(reader.vec) = IF reader.n < reader.bn THEN reader.n ELSE reader.bn
             /\ \A i \in 0..(Len(reader.vec) - 1) :
                    LET h == Branch(reader.start[1])[reader.bn - i + 1]
                    IN  /\ Range(reader.vec[i + 1]) = ProposedIn(h)
                        /\ Len(reader.vec[i + 1]) = Cardinality(ProposedIn(h))

----------------------------------------------------------------------------
(* Difficulty retargeting (shared.rs 383-423).  calculate_difficulty is a  *)
(* function of the header `last`, of the consensus parameters and of what  *)
(* the store answers: the ancestor `interval` blocks back and the two      *)
(* cumulative uncle counts.  orphan_rate_target is the fraction num/den.   *)

MaxDifficulty == 4
MaxLastNumber == 3
MaxInterval == 2
MaxUncles == 2

\* total_uncles_count is an unsigned integer of CountBits bits
CountBits == 4
CountModulus == 2 ^ CountBits

saturating_sub(a, b) == IF a > b THEN a - b ELSE 0

\* a - b where the build does not check overflow
wrapping_sub(a, b) == (a + CountModulus - b) % CountModulus

\* (1.0 / orphan_rate_target) as u64: the quotient, truncated
OrphanRateFactor(orphan_rate_target) == orphan_rate_target[2] \div orphan_rate_target[1]

\* shared.rs 383-423; c is what the call reads from the consensus and the store
calculate_difficulty(c, last) ==
    IF (last.number + 1) % c.interval /= 0 THEN Some(last.difficulty)
    ELSE IF c.start_header = None THEN None
    ELSE LET start_total_uncles_count == c.start_header[1]
             difficulty == (last.difficulty
                               * wrapping_sub(c.last_total_uncles_count,
                                              start_total_uncles_count)
                               * OrphanRateFactor(c.orphan_rate_target)) \div c.interval
             max_difficulty == last.difficulty * 2
         IN  IF difficulty > max_difficulty THEN Some(max_difficulty)
             ELSE IF difficulty < c.min_difficulty THEN Some(c.min_difficulty)
             ELSE Some(difficulty)

\* the calls: every header, consensus and store answer within the bounds
RetargetCalls ==
    { [last |-> [number |-> n, difficulty |-> d],
       interval |-> i, orphan_rate_target |-> o, min_difficulty |-> m,
       start_header |-> sh, last_total_uncles_count |-> lu,
       start |-> saturating_sub(n, i), pc |-> "called", result |-> None] :
         n \in 0..MaxLastNumber, d \in 1..MaxDifficulty, i \in 1..MaxInterval,
         o \in {<<1, 5>>, <<2, 5>>, <<1, 1>>}, m \in 1..(MaxDifficulty + 1),
         sh \in {None} \cup {Some(u) : u \in 0..1}, lu \in 1..MaxUncles }

InitDifficulty ==
    /\ InitChain
    /\ retarget \in RetargetCalls
    /\ blocks = <<>>
    /\ finalized = None
    /\ lookup = None

CalculateDifficulty ==
    /\ retarget /= None
    /\ retarget.pc = "called"
    /\ retarget' = [retarget EXCEPT !.pc = "returned",
                        !.result = calculate_difficulty(retarget, retarget.last)]
    /\ UNCHANGED <<stored, index, tip_header, reader, blocks, finalized, lookup>>
    /\ UNCHANGED walletVars

DifficultyNext == CalculateDifficulty

SpecDifficulty == InitDifficulty /\ [][DifficultyNext]_vars

\* C7: on a retarget that returns Some(new), min_difficulty <= new and
\* new <= last.difficulty * 2, whatever last.difficulty, min_difficulty and
\* the uncle counts are.
C7_DifficultyBounds ==
    (/\ retarget /= None
     /\ retarget.pc = "returned"
     /\ (retarget.last.number + 1) % retarget.interval = 0
     /\ retarget.result /= None)
        => /\ retarget.min_difficulty <= retarget.result[1]
           /\ retarget.result[1] <= retarget.last.difficulty * 2

(* calculate_difficulty on the headers of the chain.  The call runs while  *)
(* no writer is between its commit and its replacement of the TipHeader.   *)

\* the difficulty of the header h: what its block adds to the total
difficulty(h) ==
    IF Block(h).number = 0 THEN Block(h).td
    ELSE Block(h).td - Block(Block(h).parent_hash).td

RECURSIVE CountUncles(_)
CountUncles(branch) ==
    IF branch = <<>> THEN 0
    ELSE Len(UncleBlocks(Head(branch))) + CountUncles(Tail(branch))

\* store.get_block_ext(hash)
block_ext(hash) ==
    IF hash \in stored
    THEN Some([total_difficulty |-> Block(hash).td,
               total_uncles_count |-> CountUncles(Branch(hash))])
    ELSE None

\* shared.rs 223-229
block_header(hash) ==
    IF tip_header = hash THEN Some(tip_header) ELSE get_header(hash)

\* shared.rs 283-315, with no writer beside the call
get_ancestor(base, number) ==
    IF block_number(base) /= None
    THEN LET n_number == block_number(base)[1]
         IN  IF number > n_number THEN None
             ELSE IF number = n_number THEN Some(tip_header)
             ELSE IF block_hash(number) = None THEN None
             ELSE block_header(block_hash(number)[1])
    ELSE IF block_header(base) /= None
    THEN IF number > Block(base).number THEN None
         ELSE Some(Branch(base)[number + 1])
    ELSE None

\* shared.rs 407: the subtraction of the two counts overflows
sub_overflows(c, last) ==
    /\ (last.number + 1) % c.interval = 0
    /\ c.start_header /= None
    /\ c.last_total_uncles_count < c.start_header[1]

\* shared.rs 383-423 called on the stored header last_hash
CalculateDifficultyOf(last_hash, interval, orphan_rate_target, min_difficulty, overflow_checks) ==
    /\ tip_header = tip_hash
    /\ last_hash \in stored
    /\ LET last == [number |-> Block(last_hash).number,
                    difficulty |-> difficulty(last_hash)]
           start == saturating_sub(last.number, interval)
           start_header == get_ancestor(last_hash, start)
           c == [last |-> last, last_hash |-> last_hash, interval |-> interval,
                 orphan_rate_target |-> orphan_rate_target,
                 min_difficulty |-> min_difficulty,
                 ancestor |-> start_header,
                 start_header |-> IF start_header = None THEN None
                                  ELSE Some(block_ext(start_header[1])[1].total_uncles_count),
                 last_total_uncles_count |-> block_ext(last_hash)[1].total_uncles_count,
                 start |-> start, overflow_checks |-> overflow_checks,
                 pc |-> "called", result |-> None]
       IN  retarget' = IF overflow_checks /\ sub_overflows(c, last)
                       THEN [c EXCEPT !.pc = "panicked"]
                       ELSE [c EXCEPT !.pc = "returned",
                                      !.result = calculate_difficulty(c, last)]
    /\ UNCHANGED <<stored, index, tip_header, reader, blocks, finalized, lookup>>
    /\ UNCHANGED walletVars

RetargetNext ==
    \/ \E h \in BlockHashes : InsertBlock(h)
    \/ UpdateTip
    \/ \E last_hash \in BlockHashes : \E interval \in 1..MaxInterval :
        \E orphan_rate_target \in {<<1, 5>>, <<1, 1>>} :
        \E min_difficulty \in {1, MaxDifficulty + 1} :
        \E overflow_checks \in BOOLEAN :
            CalculateDifficultyOf(last_hash, interval, orphan_rate_target,
                                  min_difficulty, overflow_checks)

SpecRetarget == Init /\ [][RetargetNext]_vars

\* C29: calculate_difficulty(last) returns Some(last.difficulty) whenever
\* (last.number + 1) mod interval is not 0; it returns None only when
\* get_ancestor does not resolve the start of the window from last; and on a
\* retarget whose window start is resolved it returns Some.
C29_DifficultyResult ==
    (retarget /= None /\ retarget.pc /= "called") =>
        /\ (retarget.last.number + 1) % retarget.interval /= 0 =>
            /\ retarget.pc = "returned"
            /\ retarget.result = Some(retarget.last.difficulty)
        /\ (retarget.pc = "returned" /\ retarget.result = None) =>
            retarget.ancestor = None
        /\ ((retarget.last.number + 1) % retarget.interval = 0
                /\ retarget.ancestor /= None) =>
            /\ retarget.pc = "returned"
            /\ retarget.result /= None

\* C30: at a retarget whose window start is an ancestor of last, the
\* difference U of the two uncle counts is not negative, and the result is
\* last.difficulty * U * K / I in integer division, K the truncated
\* 1 / orphan_rate_target, brought down to at most 2 * last.difficulty and
\* then up to at least min_difficulty.
C30_RetargetFormula ==
    (/\ retarget /= None
     /\ retarget.pc /= "called"
     /\ (retarget.last.number + 1) % retarget.interval = 0
     /\ retarget.ancestor /= None
     /\ retarget.ancestor[1] \in Ancestors(retarget.last_hash)) =>
        LET U == retarget.last_total_uncles_count - retarget.start_header[1]
            K == retarget.orphan_rate_target[2] \div retarget.orphan_rate_target[1]
            new == (retarget.last.difficulty * U * K) \div retarget.interval
            max_difficulty == 2 * retarget.last.difficulty
            capped == IF new > max_difficulty THEN max_difficulty ELSE new
        IN  /\ U >= 0
            /\ retarget.pc = "returned"
            /\ retarget.result = Some(IF capped < retarget.min_difficulty
                                      THEN retarget.min_difficulty ELSE capped)

----------------------------------------------------------------------------
(* calculate_transaction_fee (shared.rs 349-378).  Capacity is an unsigned *)
(* integer of CapacityBits bits; `fee += ...` and `.sum()` are unchecked   *)
(* additions, which panic when the build checks overflow and wrap when it  *)
(* does not.                                                               *)

CapacityBits == 6
CapacityModulus == 2 ^ CapacityBits

\* the most inputs and outputs of the transaction whose fee is asked for
MaxFeeInputs == 2
MaxFeeOutputs == 2

Ok(value) == [tag |-> "Ok", value |-> value]
Err(error) == [tag |-> "Err", value |-> error]
Panicked == [tag |-> "panic", value |-> "attempt to add with overflow"]

\* the transactions of the blocks the store holds
StoredTransactions ==
    UNION {Range(Block(h).transactions) : h \in stored}

\* store.get_transaction(hash)
get_transaction(hash) ==
    IF \E tx \in StoredTransactions : tx.hash = hash
    THEN Some(CHOOSE tx \in StoredTransactions : tx.hash = hash)
    ELSE None

\* a + b as the build computes it: an Ok of the sum, the wrapped sum, or a panic
unchecked_add(a, b, overflow_checks) ==
    IF a + b < CapacityModulus THEN Ok(a + b)
    ELSE IF overflow_checks THEN Panicked
    ELSE Ok((a + b) % CapacityModulus)

\* shared.rs 353-367: the loop over the inputs, from input i on
RECURSIVE FeeOfInputs(_, _, _, _)
FeeOfInputs(inputs, i, fee, overflow_checks) ==
    IF i > Len(inputs) THEN Ok(fee)
    ELSE LET previous_output == inputs[i]
             found == IF previous_output = NullOutPoint THEN None
                      ELSE get_transaction(previous_output[1].tx_hash)
         IN  IF found = None THEN Err("InvalidInput")
             ELSE LET previous_transaction == found[1]
                      index_ == previous_output[1].index
                  IN  IF index_ < Len(previous_transaction.outputs)
                      THEN LET sum == unchecked_add(
                                        fee,
                                        previous_transaction.outputs[index_ + 1].capacity,
                                        overflow_checks)
                           IN  IF sum.tag /= "Ok" THEN sum
                               ELSE FeeOfInputs(inputs, i + 1, sum.value, overflow_checks)
                      ELSE Err("InvalidInput")

\* shared.rs 368-372: outputs().iter().map(capacity).sum(), from output i on
RECURSIVE SumOfOutputs(_, _, _, _)
SumOfOutputs(outputs, i, acc, overflow_checks) ==
    IF i > Len(outputs) THEN Ok(acc)
    ELSE LET sum == unchecked_add(acc, outputs[i].capacity, overflow_checks)
         IN  IF sum.tag /= "Ok" THEN sum
             ELSE SumOfOutputs(outputs, i + 1, sum.value, overflow_checks)

\* shared.rs 349-378
calculate_transaction_fee(transaction, overflow_checks) ==
    LET fee == FeeOfInputs(transaction.inputs, 1, 0, overflow_checks)
    IN  IF fee.tag /= "Ok" THEN fee
        ELSE LET spent_capacity == SumOfOutputs(transaction.outputs, 1, 0, overflow_checks)
             IN  IF spent_capacity.tag /= "Ok" THEN spent_capacity
                 ELSE IF spent_capacity.value > fee.value THEN Err("InvalidOutput")
                 ELSE Ok(fee.value - spent_capacity.value)

\* what the store may hold when a lookup is made: the blocks, and the tip
StoredChains ==
    {[stored |-> Range(Branch("G")), tip |-> "G"],
     [stored |-> Range(Branch("B")), tip |-> "B"],
     [stored |-> BlockHashes, tip |-> "D"],
     [stored |-> BlockHashes \ {"D"}, tip |-> "Cf"]}

\* a node at rest over one of these stores, with no wallet index
InitStored ==
    /\ \E c \in StoredChains :
        /\ stored = c.stored
        /\ index = Branch(c.tip)
        /\ tip_header = c.tip
    /\ queue = <<>>
    /\ db = EmptyDb
    /\ alive = TRUE
    /\ closed = FALSE
    /\ page = None
    /\ covered = {}
    /\ calls = 0
    /\ outcome = [op |-> "init", ok |-> TRUE, detached |-> <<>>, attached |-> <<>>,
               before |-> EmptyMap, lock |-> None, index_from |-> None, io |-> None]
    /\ reader = Idle
    /\ retarget = None
    /\ blocks = <<>>
    /\ finalized = None

\* the out-points an input may name: outputs of stored or unknown transactions,
\* an index past the outputs, the null out-point
FeeInputs ==
    {OutPoint("cbA", 0), OutPoint("a1", 0), OutPoint("e1", 0), OutPoint("a1", 1),
     OutPoint("f1", 0), NullOutPoint}
FeeCapacities == {0, 6, 30, 40}

SeqsUpTo(S, n) == UNION {[1..k -> S] : k \in 0..n}

FeeCalls ==
    {[op |-> "calculate_transaction_fee",
      transaction |-> Tx("t", inputs,
                         [i \in DOMAIN capacities |-> CellOutput(capacities[i], "L1")]),
      overflow_checks |-> overflow_checks, pc |-> "called", result |-> None] :
        inputs \in SeqsUpTo(FeeInputs, MaxFeeInputs),
        capacities \in SeqsUpTo(FeeCapacities, MaxFeeOutputs),
        overflow_checks \in BOOLEAN}

InitFee ==
    /\ InitStored
    /\ lookup \in FeeCalls

CalculateTransactionFee ==
    /\ lookup /= None
    /\ lookup.op = "calculate_transaction_fee"
    /\ lookup.pc = "called"
    /\ lookup' = [lookup EXCEPT !.pc = "returned",
                     !.result = Some(calculate_transaction_fee(lookup.transaction,
                                                               lookup.overflow_checks))]
    /\ UNCHANGED <<stored, index, tip_header, reader, retarget, blocks, finalized>>
    /\ UNCHANGED walletVars

FeeNext == CalculateTransactionFee

SpecFee == InitFee /\ [][FeeNext]_vars

\* the capacity the input names, when the store resolves it
ReferencedCapacity(previous_output) ==
    IF previous_output = NullOutPoint THEN None
    ELSE LET found == get_transaction(previous_output[1].tx_hash)
         IN  IF found = None \/ previous_output[1].index >= Len(found[1].outputs)
             THEN None
             ELSE Some(found[1].outputs[previous_output[1].index + 1].capacity)

RECURSIVE SumSeq(_)
SumSeq(s) == IF s = <<>> THEN 0 ELSE Head(s) + SumSeq(Tail(s))

\* C22: calculate_transaction_fee(tx) returns Err(InvalidInput) when an input
\* names a transaction the store does not hold or an index past its outputs;
\* otherwise Err(InvalidOutput) when the outputs' total exceeds the total of
\* the referenced capacities, and otherwise Ok(referenced total - outputs'
\* total); an Ok fee is never larger than the referenced total.
C22_TransactionFee ==
    (lookup /= None /\ lookup.op = "calculate_transaction_fee" /\ lookup.pc = "returned") =>
        LET tx == lookup.transaction
            result == lookup.result[1]
            referenced == [i \in DOMAIN tx.inputs |-> ReferencedCapacity(tx.inputs[i])]
            missing == \E i \in DOMAIN referenced : referenced[i] = None
            inputs_total == SumSeq([i \in DOMAIN referenced |-> referenced[i][1]])
            outputs_total == SumSeq([i \in DOMAIN tx.outputs |-> tx.outputs[i].capacity])
        IN  IF missing THEN result = Err("InvalidInput")
            ELSE /\ outputs_total > inputs_total => result = Err("InvalidOutput")
                 /\ outputs_total <= inputs_total
                        => result = Ok(inputs_total - outputs_total)
                 /\ result.tag = "Ok" => result.value <= inputs_total

\* C31: when every input resolves and the total of the referenced capacities
\* or the total of the output capacities is beyond the range of Capacity,
\* calculate_transaction_fee returns an error: it neither panics nor returns
\* a fee computed from a wrapped total.
C31_FeeOverflowIsAnError ==
    (lookup /= None /\ lookup.op = "calculate_transaction_fee" /\ lookup.pc = "returned") =>
        LET tx == lookup.transaction
            referenced == [i \in DOMAIN tx.inputs |-> ReferencedCapacity(tx.inputs[i])]
            inputs_total == SumSeq([i \in DOMAIN referenced |-> referenced[i][1]])
            outputs_total == SumSeq([i \in DOMAIN tx.outputs |-> tx.outputs[i].capacity])
        IN  (/\ \A i \in DOMAIN referenced : referenced[i] /= None
             /\ (inputs_total >= CapacityModulus \/ outputs_total >= CapacityModulus))
                => lookup.result[1].tag = "Err"

----------------------------------------------------------------------------
(* cell and cell_at (shared.rs 124-166).  The output root of a block names *)
(* the cell set as of that block; the store keeps, under a root and a      *)
(* transaction hash, the TransactionMeta of the transactions of the chain  *)
(* that ends in the block: one bit per output, set when it is spent there. *)

\* the root committed with the block h
OutputRoot(h) == <<"output_root", h>>

\* store.get_output_root
get_output_root(hash) == IF hash \in stored THEN Some(OutputRoot(hash)) ELSE None

\* store.get_transaction_meta(root, hash): the bits of the transaction as of
\* the block of the root
store_get_transaction_meta(root, hash) ==
    LET h == root[2]
        created == {o \in BranchOutputs(h) : o.tx_hash = hash}
    IN  IF created = {} THEN None
        ELSE Some([i \in 1..Cardinality(created) |->
                    Consumers(h, [tx_hash |-> hash, index |-> i - 1]) /= {}])

\* shared.rs 267-271
get_transaction_meta(hash) ==
    store_get_transaction_meta(OutputRoot(tip_header), hash)

\* get_transaction_meta_at reading the meta under the root of the tip
get_transaction_meta_at_tip(hash, parent) ==
    store_get_transaction_meta(OutputRoot(tip_header), hash)

\* shared.rs 273-276
get_transaction_meta_at(hash, parent) ==
    LET root == get_output_root(parent)
    IN  IF root = None THEN None ELSE store_get_transaction_meta(root[1], hash)

Current(cell_output) == [status |-> "Current", cell_output |-> Some(cell_output)]
Old == [status |-> "Old", cell_output |-> None]
Unknown == [status |-> "Unknown", cell_output |-> None]
\* expect("transaction must exist")
CellPanicked == [status |-> "panic", cell_output |-> None]

len(meta) == Len(meta)
is_spent(meta, index_) == meta[index_ + 1]

\* shared.rs 126-143 and 147-164: the status read off a meta
CellStatusOf(found, out_point) ==
    LET index_ == out_point.index
    IN  IF found /= None
        THEN LET meta == found[1]
             IN  IF index_ < len(meta)
                 THEN IF ~is_spent(meta, index_)
                      THEN LET transaction == get_transaction(out_point.tx_hash)
                           IN  IF transaction = None THEN CellPanicked
                               ELSE Current(transaction[1].outputs[index_ + 1])
                      ELSE Old
                 ELSE Unknown
        ELSE Unknown

\* shared.rs 125-144
cell(out_point) == CellStatusOf(get_transaction_meta(out_point.tx_hash), out_point)

\* shared.rs 146-165
cell_at(out_point, parent) ==
    CellStatusOf(get_transaction_meta_at(out_point.tx_hash, parent), out_point)

\* the out-points asked for: outputs of the chains, an index past the
\* outputs, a transaction of no block
CellOutPoints ==
    {[tx_hash |-> hash, index |-> i] :
        hash \in {"cbA", "a1", "b1", "e1", "f1", "f2", "g1", "zz"}, i \in 0..MaxOutputs}

CellCalls ==
    {[op |-> "cell", out_point |-> p, parent |-> None, pc |-> "called",
      result |-> None] : p \in CellOutPoints}
    \cup {[op |-> "cell_at", out_point |-> p, parent |-> Some(h), pc |-> "called",
           result |-> None] : p \in CellOutPoints, h \in BlockHashes}

InitCell ==
    /\ InitStored
    /\ lookup \in CellCalls

Cell ==
    /\ lookup /= None
    /\ lookup.op = "cell"
    /\ lookup.pc = "called"
    /\ lookup' = [lookup EXCEPT !.pc = "returned",
                                !.result = Some(cell(lookup.out_point))]
    /\ UNCHANGED <<stored, index, tip_header, reader, retarget, blocks, finalized>>
    /\ UNCHANGED walletVars

CellAt ==
    /\ lookup /= None
    /\ lookup.op = "cell_at"
    /\ lookup.pc = "called"
    /\ lookup' = [lookup EXCEPT !.pc = "returned",
                                !.result = Some(cell_at(lookup.out_point, lookup.parent[1]))]
    /\ UNCHANGED <<stored, index, tip_header, reader, retarget, blocks, finalized>>
    /\ UNCHANGED walletVars

CellNext == Cell \/ CellAt

SpecCell == InitCell /\ [][CellNext]_vars

\* C23: cell(out_point) and cell_at(out_point, parent) return one of three
\* statuses, read off the TransactionMeta as of the tip (cell) or as of
\* parent (cell_at): Unknown when the chain ending there holds no such
\* transaction (or parent is not stored) or the index is not below the
\* number of its outputs, Old when an input of that chain spends the output,
\* and Current with the output itself otherwise.
C23_CellStatus ==
    (lookup /= None /\ lookup.op \in {"cell", "cell_at"} /\ lookup.pc = "returned") =>
        LET p == lookup.out_point
            result == lookup.result[1]
            at == IF lookup.op = "cell" THEN Some(tip_header)
                  ELSE IF lookup.parent[1] \in stored THEN lookup.parent ELSE None
            created == IF at = None THEN {}
                       ELSE {o \in BranchOutputs(at[1]) : PointOf(o) = p}
        IN  /\ result.status \in {"Current", "Old", "Unknown"}
            /\ result.status = "Unknown" <=> created = {}
            /\ result.status = "Old" <=> (created /= {} /\ Consumers(at[1], p) /= {})
            /\ result.status = "Current" =>
                    \A o \in created : result.cell_output = Some(o.output)

\* cell_at answered Current for an output as of a parent below the tip,
\* where the chain up to the tip spends the output
C23_Witness ==
    /\ lookup /= None /\ lookup.op = "cell_at" /\ lookup.pc = "returned"
    /\ lookup.result[1].status = "Current"
    /\ lookup.result[1].cell_output /= None
    /\ Consumers(tip_header, lookup.out_point) /= {}

----------------------------------------------------------------------------
(* Shared::new (shared.rs 77-113).  The store handed to the constructor is *)
(* a record: the blocks it holds, its tip, the BlockExt entries (the total *)
(* difficulty under a hash) and the hashes it has an output root for.      *)

\* the zero hash
H256Zero == "zero"

\* shared.rs 31-37
TipHeaderNew(header, total_difficulty, output_root) ==
    [inner |-> header, total_difficulty |-> total_difficulty,
     output_root |-> output_root]

\* store.init(genesis): the genesis block, its BlockExt, the index and the tip
store_init(store, genesis) ==
    [blocks |-> {genesis}, tip |-> Some(genesis),
     ext |-> [h \in {genesis} |-> Block(genesis).td], roots |-> {}]

\* the constructor taking a missing BlockExt for a total difficulty of zero
new_default_ext(store, genesis) ==
    LET after == IF store.tip /= None THEN store ELSE store_init(store, genesis)
        header == IF store.tip /= None THEN store.tip[1] ELSE genesis
        output_root == IF header \in after.roots THEN OutputRoot(header) ELSE H256Zero
    IN  [tag |-> "Ok", store |-> after,
         value |-> TipHeaderNew(header,
                                IF header \in DOMAIN after.ext THEN after.ext[header] ELSE 0,
                                output_root)]

\* shared.rs 77-113: the TipHeader the constructor builds, and the store after
new(store, genesis) ==
    LET after == IF store.tip /= None THEN store ELSE store_init(store, genesis)
        header == IF store.tip /= None THEN store.tip[1] ELSE genesis
        output_root == IF header \in after.roots THEN OutputRoot(header) ELSE H256Zero
    IN  IF header \notin DOMAIN after.ext
        THEN [tag |-> "panic", store |-> after, value |-> "block_ext stored"]
        ELSE [tag |-> "Ok", store |-> after,
              value |-> TipHeaderNew(header, after.ext[header], output_root)]

\* the blocks of a store whose tip is t: its branch, with or without the
\* other block at the tip's height
NewBlocks(t) ==
    {Range(Branch(t))}
        \cup (IF Block(t).number = 2 THEN {Range(Branch(t)) \cup {"B", "Bf"}} ELSE {})

NewStoresOf(t, held) ==
    {[blocks |-> held, tip |-> Some(t),
      ext |-> [h \in E |-> Block(h).td], roots |-> roots] :
            E \in SUBSET held, roots \in {{}, held}}

\* the stores a node may be started on: empty, or a chain with its tip, with
\* any of the BlockExt entries lost
NewStores ==
    {[blocks |-> {}, tip |-> None, ext |-> EmptyMap, roots |-> {}]}
        \cup UNION {UNION {NewStoresOf(t, held) : held \in NewBlocks(t)} :
                        t \in {"G", "A", "B", "Bf"}}

\* a call of the constructor; the store is not a node's yet
InitNew ==
    /\ InitChain
    /\ retarget = None
    /\ blocks = <<>>
    /\ finalized = None
    /\ lookup \in {[op |-> "new", store |-> store, pc |-> "called", result |-> None] :
                        store \in NewStores}

SharedNew ==
    /\ lookup /= None
    /\ lookup.op = "new"
    /\ lookup.pc = "called"
    /\ lookup' = [lookup EXCEPT !.pc = "returned",
                     !.result = Some(new(lookup.store, "G"))]
    /\ UNCHANGED <<stored, index, tip_header, reader, retarget, blocks, finalized>>
    /\ UNCHANGED walletVars

NewNext == SharedNew

SpecNew == InitNew /\ [][NewNext]_vars

\* C32: after Shared::new the TipHeader holds the store's tip header when the
\* store has one, and otherwise the genesis header, which init(genesis) has
\* then written; its total_difficulty is the one the BlockExt under that
\* header's hash records; and when that BlockExt is missing the constructor
\* panics instead of returning.
C32_TipAtConstruction ==
    (lookup /= None /\ lookup.op = "new" /\ lookup.pc = "returned") =>
        LET store == lookup.store
            result == lookup.result[1]
            header == IF store.tip /= None THEN store.tip[1] ELSE "G"
        IN  /\ (store.tip /= None /\ header \notin DOMAIN store.ext)
                    => result.tag = "panic"
            /\ (store.tip /= None /\ header \in DOMAIN store.ext) =>
                    /\ result.tag = "Ok"
                    /\ result.value.inner = header
                    /\ result.value.total_difficulty = store.ext[header]
                    /\ result.store = store
            /\ store.tip = None =>
                    /\ result.tag = "Ok"
                    /\ result.value.inner = "G"
                    /\ "G" \in result.store.blocks
                    /\ result.store.tip = Some("G")
                    /\ result.value.total_difficulty = result.store.ext["G"]

\* a store whose tip is a later block with its BlockExt, among lost entries
C32_Witness ==
    /\ lookup /= None /\ lookup.op = "new" /\ lookup.pc = "returned"
    /\ lookup.store.tip = Some("Bf")
    /\ "A" \notin DOMAIN lookup.store.ext
    /\ lookup.result[1].tag = "Ok"
    /\ lookup.result[1].value.total_difficulty = Block("Bf").td

----------------------------------------------------------------------------
(* Reward finalization.  chain/src/tests/reward.rs builds a chain with     *)
(* gen_block and process_block and calls finalize_block_reward on headers  *)
(* of it.  A block is numbered by its place in `blocks`; a transaction is  *)
(* named by its place in the test's `txs` (txs[i] spends txs[i - 1]), and  *)
(* its proposal short id by the same number.  Capacities are in bytes.     *)

TX_FEE == 10
BLOCK_REWARD == 1000
NumTxs == 16

MaxBlocks == 23
MaxProposing == 2
MaxCommitting == 2

Scripts == {"always_success", "bob", "alice"}

\* consensus.tx_proposal_window(): (closest, farthest)
ProposalWindowClosest == 2
ProposalWindowFarthest == 10
\* consensus.proposer_reward_ratio(): numerator, denominator
proposer_reward_ratio == <<4, 10>>

\* Capacity::safe_mul_ratio
safe_mul_ratio(capacity, ratio) == (capacity * ratio[1]) \div ratio[2]

\* reward.rs 62-79: create_transaction leaves TX_FEE of its input's capacity
Fee(tx) == TX_FEE

initial_block_reward == BLOCK_REWARD

\* block_reward halving the subsidy
block_reward_halved(number) == initial_block_reward \div 2

\* shared.rs 278-281: block_reward ignores the number
block_reward(number) == initial_block_reward

\* reward.rs 36-60: gen_block, without the cellbase output finalization never reads
gen_block(parent_number, transactions, proposals, miner_lock) ==
    [number |-> parent_number + 1, transactions |-> transactions,
     proposals |-> proposals, miner_lock |-> miner_lock]

\* the numbers of the blocks whose proposals a block numbered c may commit
ProposalWindow(c) ==
    {p \in 1..Len(blocks) : c - ProposalWindowFarthest <= p /\ p <= c - ProposalWindowClosest}

CommittedTxs == UNION {blocks[n].transactions : n \in 1..Len(blocks)}

\* process_block accepts a block whose transactions extend the committed chain
\* of transactions and were proposed inside the block's window
CommitAllowed(transactions) ==
    LET c == Len(blocks) + 1
        k == Cardinality(CommittedTxs)
    IN  /\ transactions = (k + 1)..(k + Cardinality(transactions))
        /\ \A tx \in transactions : \E p \in ProposalWindow(c) : tx \in blocks[p].proposals

\* reward.rs 127-133, 143-147: what the test proposes and commits in one block
ProposalChoices == {{}, 1..8, 1..NumTxs}
CommitChoices ==
    LET k == Cardinality(CommittedTxs)
    IN  {{}} \cup {(k + 1)..(k + m) : m \in {m \in {4, 12} : k + m <= NumTxs}}

\* the blocks the chain goes on with: within the bounds, and accepted
GenChoices ==
    IF Len(blocks) >= MaxBlocks THEN {}
    ELSE LET proposing == Cardinality({n \in 1..Len(blocks) : blocks[n].proposals /= {}})
             committing == Cardinality({n \in 1..Len(blocks) : blocks[n].transactions /= {}})
             commits == {t \in CommitChoices :
                            /\ t /= {} => committing < MaxCommitting
                            /\ CommitAllowed(t)}
             proposers == {[proposals |-> {}, miner_lock |-> "always_success"]} \cup
                          {q \in [proposals : ProposalChoices \ {{}},
                                  miner_lock : Scripts \ {"always_success"}] :
                              proposing < MaxProposing}
         IN  {[transactions |-> t, proposals |-> q.proposals, miner_lock |-> q.miner_lock] :
                 t \in commits, q \in proposers}

\* reward.rs 149-165: gen_block on the tip and process_block
GenBlock(transactions, proposals, miner_lock) ==
    /\ blocks' = Append(blocks, gen_block(Len(blocks), transactions, proposals, miner_lock))
    /\ finalized' = None
    /\ UNCHANGED <<stored, index, tip_header, reader, retarget, lookup>>
    /\ UNCHANGED walletVars

RECURSIVE SumProposerShares(_)
SumProposerShares(txs) ==
    IF txs = {} THEN 0
    ELSE LET tx == CHOOSE t \in txs : TRUE
         IN  safe_mul_ratio(Fee(tx), proposer_reward_ratio) + SumProposerShares(txs \ {tx})

\* the target taken to be the block whose header is passed
TargetNumberOfParent(parent) == parent

\* the block finalize_block_reward(parent) pays
TargetNumber(parent) == parent - ProposalWindowFarthest

\* RewardedProposals paying every proposer of a committed transaction
RewardedProposalsOfAnyProposer(parent) ==
    LET target == TargetNumber(parent)
    IN  {tx \in blocks[target].proposals :
            \E c \in (target + ProposalWindowClosest)..parent : tx \in blocks[c].transactions}

\* the proposals of the target whose share its reward includes: those committed
\* in a block up to parent that no block before the target, inside the window
\* of the committing block, had proposed
RewardedProposals(parent) ==
    LET target == TargetNumber(parent)
    IN  {tx \in blocks[target].proposals :
            \E c \in (target + ProposalWindowClosest)..parent :
                /\ tx \in blocks[c].transactions
                /\ \A p \in ProposalWindow(c) : p < target => tx \notin blocks[p].proposals}

\* finalize_block_reward(parent): (target_lock, reward); rewarded is history,
\* the transactions whose proposer share the reward includes
finalize_block_reward(parent) ==
    [parent |-> parent,
     rewarded |-> RewardedProposals(parent),
     target_lock |-> blocks[TargetNumber(parent)].miner_lock,
     reward |-> block_reward(TargetNumber(parent))
                    + SumProposerShares(RewardedProposals(parent))]

\* reward.rs 167, 197: shared.finalize_block_reward(tip header)
FinalizeBlockReward ==
    /\ finalized = None
    /\ TargetNumber(Len(blocks)) >= 1
    /\ finalized' = Some(finalize_block_reward(Len(blocks)))
    /\ UNCHANGED <<stored, index, tip_header, reader, retarget, blocks, lookup>>
    /\ UNCHANGED walletVars

RewardNext ==
    \/ \E g \in GenChoices : GenBlock(g.transactions, g.proposals, g.miner_lock)
    \/ FinalizeBlockReward

\* reward.rs 126-165 with i < 12: the blocks the test mines before its first
\* proposal, one more than the farthest end of the window; finalization has
\* a target from the tip of this chain on
QuietBlocks == ProposalWindowFarthest + 1

InitReward ==
    /\ InitChain
    /\ retarget = None
    /\ blocks = [n \in 1..QuietBlocks |-> gen_block(n - 1, {}, {}, "always_success")]
    /\ finalized = None
    /\ lookup = None

SpecReward == InitReward /\ [][RewardNext]_vars

\* the block that commits tx, and the earliest block inside the proposal
\* window of the block numbered c that proposes tx
CommitBlockOf(tx) == CHOOSE c \in 1..Len(blocks) : tx \in blocks[c].transactions
ProposerOf(tx, c) ==
    LET proposers == {p \in ProposalWindow(c) : tx \in blocks[p].proposals}
    IN  CHOOSE p \in proposers : \A q \in proposers : p <= q

\* reward.rs 126-147: block 12 (bob) proposes the first 8 transactions, block 13
\* (alice) all 16, block 22 commits the first 12; and block 23 the last 4
SplitScenario22 ==
    /\ Len(blocks) >= 22
    /\ blocks[12].miner_lock = "bob" /\ blocks[12].proposals = 1..8
    /\ blocks[13].miner_lock = "alice" /\ blocks[13].proposals = 1..16
    /\ blocks[22].transactions = 1..12
SplitScenario23 ==
    /\ SplitScenario22
    /\ Len(blocks) >= 23
    /\ blocks[23].transactions = 13..16

\* C8: in the scenario of the test (block 12 of bob proposes txs 1..8, block 13
\* of alice proposes txs 1..16, block 22 commits txs 1..12, block 23 commits txs
\* 13..16, each paying TX_FEE), finalize_block_reward on the header of block 22
\* returns bob's lock with block_reward + 8 * (TX_FEE * ratio), and on the
\* header of block 23 alice's lock with the same amount.
C8_SplitScenario ==
    finalized /= None =>
        LET r == finalized[1]
            amount == BLOCK_REWARD + 8 * safe_mul_ratio(TX_FEE, proposer_reward_ratio)
        IN  /\ (r.parent = 22 /\ SplitScenario22) =>
                   (r.target_lock = "bob" /\ r.reward = amount)
            /\ (r.parent = 23 /\ SplitScenario23) =>
                   (r.target_lock = "alice" /\ r.reward = amount)

C8_Witness ==
    /\ finalized /= None
    /\ finalized[1].parent = 23
    /\ SplitScenario23
    /\ finalized[1].target_lock = "alice"

\* C9: when a transaction is proposed by block P1 and by a later block P2, both
\* inside the proposal window of the block that commits it, the reward
\* finalized for P2 never includes its proposer share, and the reward finalized
\* for P1 includes it when P1 is the first block of that window to propose it.
C9_ProposerFirstWins ==
    finalized /= None =>
        LET r == finalized[1]
            target == TargetNumber(r.parent)
            Later(c, tx) == \E p2 \in ProposalWindow(c) :
                               target < p2 /\ tx \in blocks[p2].proposals
            Earlier(c, tx) == \E p1 \in ProposalWindow(c) :
                                 p1 < target /\ tx \in blocks[p1].proposals
        IN  /\ r.reward = initial_block_reward + SumProposerShares(r.rewarded)
            /\ \A c \in {c \in 1..r.parent : target \in ProposalWindow(c)} :
                   \A tx \in blocks[c].transactions \cap blocks[target].proposals :
                       /\ Earlier(c, tx) => tx \notin r.rewarded
                       /\ (Later(c, tx) /\ ProposerOf(tx, c) = target) => tx \in r.rewarded

C9_Witness ==
    /\ finalized /= None
    /\ LET r == finalized[1]
           target == TargetNumber(r.parent)
       IN  \E c \in 1..r.parent : \E tx \in blocks[c].transactions :
               \E p1 \in ProposalWindow(c) :
                   /\ p1 < target
                   /\ target \in ProposalWindow(c)
                   /\ tx \in blocks[p1].proposals
                   /\ tx \in blocks[target].proposals
                   /\ blocks[p1].miner_lock /= blocks[target].miner_lock
                   /\ r.rewarded /= {}

====
